---- MODULE Spec2Model ----
(***************************************************************************)
(* Job lifecycle of Isengard: the job record, the stream queue, the        *)
(* progress stream / event bus, the worker (apps/worker), the in-process   *)
(* executor (apps/api/services/job_executor.py), the cancel handlers and   *)
(* the SSE progress streams.                                               *)
(*                                                                         *)
(* SpecJobs follows ONE job from submission to its end, in queue (Redis)   *)
(* mode or in single-process mode (chosen in Init).  In queue mode the API *)
(* and the worker are two processes: every Redis call is one atomic step   *)
(* and the steps of the two processes interleave freely.  In               *)
(* single-process mode everything runs on one asyncio loop: a coroutine    *)
(* runs without interruption up to its next real suspension (the plugin's  *)
(* asyncio.sleep), so a handler without I/O is one step.                   *)
(*                                                                         *)
(* SpecQueue follows the two job streams and the consumer group shared by  *)
(* the workers (XADD / XREADGROUP ">" / XACK).                             *)
(***************************************************************************)
EXTENDS Integers, Sequences, FiniteSets, TLC

\* ------------------------------------------------------------------ bounds
\* config.steps of the observed job (the code's range is scaled down)
MaxSteps == 2
\* number of cancel requests a client sends for the observed job
MaxCancels == 1
\* number of times the subprocess plugin reports an unchanged step
MaxRepeats == 1
\* messages submitted to each job stream
MaxMsgs == 2
\* workers of the consumer group
NumWorkers == 2
\* workers that die while they hold a message
MaxCrashes == 1
\* clients connected to the job's event stream
NumSubs == 2
\* events published for the job while only the bus / progress stream is observed
MaxEvents == 3
\* events published for the job while the retained history is observed
MaxPublishes == 101
\* HTTP requests that submit a training job while correlation IDs, or the
\* submission's outcome, are observed
NumRequests == 2
\* progress reports the plugin makes while the worker's throttle, or the
\* executor's emit_progress, is observed
MaxReports == 5
\* distinct sample paths the plugin reports
MaxPaths == 2
\* highest step number found in the training subprocess's output
MaxParsedStep == 3

\* ------------------------------------------------------- program constants
\* XADD maxlen of the progress stream
PROGRESS_MAXLEN == 100
\* InMemoryEventBus(max_history=100)
BUS_MAX_HISTORY == 100
\* MIN_EMIT_INTERVAL = 0.5 seconds of the worker's on_progress, in milliseconds
MIN_EMIT_INTERVAL == 500

TERMINAL == {"completed", "failed", "cancelled"}

VARIABLES
    \* ---- configuration of the run (fixed by Init)
    useRedis,        \* USE_REDIS: queue mode (TRUE) or single-process mode
    jobType,         \* "training" | "generation"
    pluginKind,      \* "mock" (calls the callback without await) | "subprocess"
    \* ---- stores
    rec,             \* the job record (Redis JSON / the shared TrainingJob object)
    msg,             \* the job's queue message: none | queued | delivered | acked
    progressStream,  \* Redis stream progress:<job_id>
    busHistory,      \* InMemoryEventBus._history[job_id]
    jobProgress,     \* job_executor._job_progress[job_id]
    \* ---- API handlers
    apiPc,           \* submission handler
    cancelPc,        \* cancel handler: idle | save | publish
    cancelJob,       \* the record the cancel handler read
    cancelsDone,     \* cancel requests answered so far
    \* ---- worker (queue mode)
    wphase, wop, wjob, wstep, wLastEmitted, wRepeats,
    \* ---- executor (single-process mode)
    epc, estep, tasks, lastSamplePath,
    \* ---- plugin singleton
    pluginRunning, pluginCancelled,
    \* ---- SSE stream of routes/training.py
    ssePc, sseCursor, sseFrames,
    \* ---- history variables (observations only, never read by the program)
    acceptedCancels,     \* cancel requests accepted so far
    cancelledRunning,    \* a cancel was accepted while the job was running
    cancelledQueued,     \* a cancel was accepted while the message was still queued
    tickAfterCancel,     \* the run made a progress tick after that cancel
    errorSeen            \* the run of the job hit an error

cfgVars    == <<useRedis, jobType, pluginKind>>
storeVars  == <<rec, msg, progressStream, busHistory, jobProgress>>
apiVars    == <<apiPc, cancelPc, cancelJob, cancelsDone>>
workerVars == <<wphase, wop, wjob, wstep, wLastEmitted, wRepeats>>
execVars   == <<epc, estep, tasks, lastSamplePath>>
pluginVars == <<pluginRunning, pluginCancelled>>
sseVars    == <<ssePc, sseCursor, sseFrames>>
cancelHist == <<acceptedCancels, cancelledRunning, cancelledQueued, tickAfterCancel>>
histVars   == <<cancelHist, errorSeen>>


\* ---- subscribers of the job's event stream (routes/jobs.py stream_job_events)
VARIABLES
    subPc,           \* per subscriber: none | subscribed | ended
    subQueue,        \* per subscriber: its asyncio.Queue on the in-process bus
    subCursor,       \* per subscriber: last_id of stream_progress
    subSeen,         \* per subscriber: the events yielded to it, in order
    owed             \* history: ids of the terminal events published while the
                     \* subscriber was subscribed

subVars == <<subPc, subQueue, subCursor, subSeen, owed>>

jobVars == <<cfgVars, storeVars, apiVars, workerVars, execVars, pluginVars,
             sseVars, histVars, subVars>>

\* ---- the job streams and their consumer group (SpecQueue)
VARIABLES
    streamLen,       \* per stream: number of entries added (entry ids are 1..n)
    groupExists,     \* per stream: the consumer group "workers" exists
    lastDelivered,   \* per stream: the group's last-delivered id
    pending,         \* per stream: the group's pending entries, id -> consumer
    qpc,             \* per worker: where it is in Worker._run_loop
    current,         \* per worker: _current_stream / _current_message_id
    \* history variables
    deliveries,      \* per stream: the ids consume returned, in order
    lastDequeued,    \* per worker: the stream of its previous dequeue
    passedOver       \* per worker: training dequeues in a row that passed over
                     \* a waiting generation message

queueVars == <<streamLen, groupExists, lastDelivered, pending, qpc, current,
               deliveries, lastDequeued, passedOver>>

\* ---- correlation IDs from the request to the worker (SpecTrace)
VARIABLES
    reqPc,           \* per request: new | handling | done
    apiCtx,          \* per request: _correlation_id in the request's context
    trainingStream,  \* the envelopes XADDed to the training stream, in order
    traceDelivered,  \* the group's last-delivered position in that stream
    workerCtx,       \* per worker process: _correlation_id in its context
    workerJob        \* per worker: id of the job it is processing, 0 when none

traceVars == <<reqPc, apiCtx, trainingStream, traceDelivered, workerCtx, workerJob>>

\* ---- the throttle of the worker's training on_progress (SpecThrottle)
VARIABLES
    now,              \* time.time(), in milliseconds
    reports,          \* progress reports the plugin has made
    reported_step,    \* progress.current_step of the latest report
    last_emitted_step,
    last_emit_time,
    emitted           \* history: step and time of each report that was emitted

throttleVars == <<now, reports, reported_step, last_emitted_step, last_emit_time,
                  emitted>>

\* ---- AIToolkitPlugin._run_training: the step counter (SpecParser)
VARIABLES
    current_step,     \* the step counter derived from the subprocess's output
    callbackSteps,    \* history: the current_step values passed to the callback
    regressions       \* history: parsed steps below current_step seen so far

parserVars == <<current_step, callbackSteps, regressions>>

\* ---- the outcome of training submissions (SpecSubmit)
VARIABLES
    sentKeys,         \* history, per request: the config keys the client set
    passesChecks,     \* history, per request: method, character and images are fine
    response,         \* per request: status code and detail of the response
    jobStore,         \* the requests whose job record was stored
    dispatched        \* the requests whose job was enqueued or scheduled

submitVars == <<sentKeys, passesChecks, response, jobStore, dispatched>>

\* ---- the rate limiter in front of one endpoint (SpecRate)
VARIABLES
    endpoint,         \* the route handler the requests are sent to
    clock,            \* time.time(), in seconds
    limiterRequests,  \* RateLimiter._requests, per client: the recorded timestamps
    admitted,         \* history, per client: when the handler body ran, within
                      \* the window that ends at the last of them
    rateCalls         \* history: the requests received so far

rateVars == <<endpoint, clock, limiterRequests, admitted, rateCalls>>

\* ---- consumer groups that disappear under running workers (SpecHeal)
VARIABLES
    groupLosses,      \* history: how many times a consumer group was destroyed
    lostAt            \* history, per stream: the number of deliveries made when
                      \* its group was last destroyed, -1 when it never was

healVars == <<groupLosses, lostAt>>

\* ---- job envelopes on a queue stream (SpecEnvelope)
VARIABLES
    envStream,   \* the entries of the stream as Redis stores them: field -> string
    envArgs,   \* history: the arguments of each submit_job call, in order
    envOut   \* what consume_jobs returned for each entry, in order

envVars == <<envStream, envArgs, envOut>>

\* ---- the UELR interaction store (SpecUelr, SpecRetention)
VARIABLES
    utcnow,   \* datetime.utcnow(), in ticks
    files,   \* interactions/<id>.jsonl, per id on disk: the header line and the step lines
    index,   \* index/interactions.jsonl: the entry of each indexed id
    acceptedSteps,   \* history, per id on disk: the steps append_steps accepted since the file was created
    uelrResponse,   \* the answer to the last create_interaction or get_interaction request
    uelrOps   \* history: the number of requests served

uelrVars == <<utcnow, files, index, acceptedSteps, uelrResponse, uelrOps>>

\* ---- store calls that raise in the worker (SpecFaults)
VARIABLES
    inExcept   \* process_job is in its except block: _mark_job_failed runs outside the try

faultVars == <<inExcept>>

\* what the actions of one specification leave alone
extraVars == <<traceVars, throttleVars, parserVars, submitVars, rateVars, healVars,
    envVars, uelrVars, faultVars>>
nonJobVars == <<queueVars, extraVars>>
nonQueueVars == <<jobVars, extraVars>>
nonTraceVars == <<jobVars, queueVars, throttleVars, parserVars, submitVars, rateVars,
    healVars, envVars, uelrVars, faultVars>>
nonThrottleVars == <<jobVars, queueVars, traceVars, parserVars, submitVars, rateVars,
    healVars, envVars, uelrVars, faultVars>>
nonParserVars == <<jobVars, queueVars, traceVars, throttleVars, submitVars, rateVars,
    healVars, envVars, uelrVars, faultVars>>
nonSubmitVars == <<jobVars, queueVars, traceVars, throttleVars, parserVars, rateVars,
    healVars, envVars, uelrVars, faultVars>>
nonRateVars == <<jobVars, queueVars, traceVars, throttleVars, parserVars, submitVars,
    healVars, envVars, uelrVars, faultVars>>
nonHealVars == <<jobVars, traceVars, throttleVars, parserVars, submitVars, rateVars,
    envVars, uelrVars, faultVars>>
nonEnvVars == <<jobVars, queueVars, traceVars, throttleVars, parserVars, submitVars,
    rateVars, healVars, uelrVars, faultVars>>
nonUelrVars == <<jobVars, queueVars, traceVars, throttleVars, parserVars, submitVars,
    rateVars, healVars, envVars, faultVars>>
nonFaultVars == <<jobVars, queueVars, traceVars, throttleVars, parserVars, submitVars,
    rateVars, healVars, envVars, uelrVars>>

vars == <<jobVars, queueVars, extraVars>>

\* ------------------------------------------------------------------ records
NoJob == [status |-> "absent", progress |-> 0, current_step |-> 0]

\* TrainingJob(status=QUEUED, ...) as start_training / generate_images build it
NewJob == [status |-> "queued", progress |-> 0, current_step |-> 0]

\* TrainingProgress.percentage, for config.steps = MaxSteps
Percentage(step) == IF MaxSteps = 0 THEN 0 ELSE (step * 100) \div MaxSteps

\* a progress event; "by" is an observation: who published it
ProgressEvent(status, stage, pct, step, by) ==
    [type |-> "progress", status |-> status, stage |-> stage,
     progress |-> pct, step |-> step, by |-> by, path |-> 0]

\* ArtifactEvent(artifact_type="sample", path, step)
ArtifactEvent(path, step) ==
    [type |-> "artifact", status |-> "none", stage |-> "none",
     progress |-> 0, step |-> step, by |-> "run", path |-> path]

Last(n, s) == IF Len(s) <= n THEN s ELSE SubSeq(s, Len(s) - n + 1, Len(s))

\* r.xadd(stream, event, maxlen=100): the stream after the call, as a set of
\* outcomes.  The call leaves redis-py's `approximate` at its default, so the
\* command sent is XADD ... MAXLEN ~ 100: the server evicts old entries only
\* by whole nodes, and a stream longer than 100 entries is trimmed or not.
XAddProgress(stream, ev) ==
    {Append(stream, ev), Last(PROGRESS_MAXLEN, Append(stream, ev))}

\* redis_client.publish_progress: progress events carry no stage in queue mode
PublishProgress(stream, status, pct, step, by) ==
    XAddProgress(stream, ProgressEvent(status, "none", pct, step, by))

\* InMemoryEventBus.publish: append to history, evict to max_history
BusPublish(hist, ev) == Last(BUS_MAX_HISTORY, Append(hist, ev))

Subs == 1 .. NumSubs

\* the events a publish appended to a history, each with its id: its position
\* in the history (a run publishes fewer events than the history retains)
NewEvents(old, new) ==
    [i \in 1 .. (Len(new) - Len(old)) |-> <<Len(old) + i, new[Len(old) + i]>>]

\* a subscriber's queue that receives new events ahead of the waiting ones
EnqueueFirst(q, items) == items \o q

\* InMemoryEventBus.publish: `await queue.put(event_dict)` on the subscriber's
\* unbounded asyncio.Queue, for each published event in turn
Enqueue(q, items) == q \o items

\* what a publish does to the subscribers: the in-process bus puts the events
\* into the queue of every registered subscriber; a Redis XADD touches no
\* subscriber.  `owed` notes the terminal events published while subscribed.
Notify(old, new) ==
    LET evs == NewEvents(old, new)
    IN /\ subQueue' = [s \in Subs |->
              IF ~useRedis /\ subPc[s] = "subscribed"
                THEN Enqueue(subQueue[s], evs) ELSE subQueue[s]]
       /\ owed' = [s \in Subs |->
              IF subPc[s] = "subscribed"
                THEN owed[s] \cup {evs[i][1] : i \in {j \in DOMAIN evs :
                                       evs[j][2].status \in TERMINAL}}
                ELSE owed[s]]
       /\ UNCHANGED <<subPc, subCursor, subSeen>>

\* ============================================================ submission
\* a submission handler that goes on without storing the record
ApiSaveJobSkipped ==
    /\ apiPc = "init"
    /\ apiPc' = IF useRedis THEN "saved" ELSE "submitted"
    /\ epc' = IF useRedis THEN epc ELSE "scheduled"
    /\ UNCHANGED <<nonJobVars, subVars, cfgVars, storeVars, cancelPc, cancelJob, cancelsDone,
                   workerVars, estep, tasks, lastSamplePath, pluginVars, sseVars,
                   histVars>>

\* start_training / generate_images, first half: `await _save_job(job)`
ApiSaveJob ==
    /\ apiPc = "init"
    /\ rec' = NewJob
    /\ apiPc' = IF useRedis THEN "saved" ELSE "submitted"
    \* single-process mode: background_tasks.add_task(execute_..._job, job=job)
    /\ epc' = IF useRedis THEN epc ELSE "scheduled"
    /\ UNCHANGED <<nonJobVars, subVars, cfgVars, msg, progressStream, busHistory, jobProgress,
                   cancelPc, cancelJob, cancelsDone, workerVars, estep, tasks,
                   lastSamplePath, pluginVars, sseVars, histVars>>

\* second half in queue mode: `await redis_client.submit_job(stream, ...)` (XADD)
ApiSubmitJob ==
    /\ apiPc = "saved"
    /\ msg' = "queued"
    /\ apiPc' = "submitted"
    /\ UNCHANGED <<nonJobVars, subVars, cfgVars, rec, progressStream, busHistory, jobProgress,
                   cancelPc, cancelJob, cancelsDone, workerVars, execVars,
                   pluginVars, sseVars, histVars>>

\* ================================================================ cancel
\* cancel_training / cancel_generation in queue mode, up to the status check:
\* `job = await _get_job_or_404(job_id)` reads the record from Redis, then the
\* handler answers 400 when the status it READ is terminal.
CancelRead ==
    /\ useRedis
    /\ cancelPc = "idle"
    /\ cancelsDone < MaxCancels
    /\ rec.status # "absent"                     \* otherwise 404
    /\ cancelJob' = rec
    /\ IF rec.status \in TERMINAL
         THEN /\ cancelPc' = "idle"              \* HTTPException(400)
              /\ cancelsDone' = cancelsDone + 1
         ELSE /\ cancelPc' = "save"
              /\ UNCHANGED cancelsDone
    /\ UNCHANGED <<nonJobVars, subVars, cfgVars, storeVars, apiPc, workerVars, execVars, pluginVars,
                   sseVars, histVars>>

\* `job.status = CANCELLED; await _save_job(job)`: redis_client.save_job writes
\* the WHOLE record the handler read, with the status replaced.
CancelSave ==
    /\ cancelPc = "save"
    /\ rec' = [cancelJob EXCEPT !.status = "cancelled"]
    /\ cancelPc' = "publish"
    /\ acceptedCancels' = acceptedCancels + 1
    /\ cancelledRunning' = (cancelledRunning \/ rec.status = "running")
    /\ cancelledQueued' = (cancelledQueued \/ msg = "queued")
    /\ UNCHANGED <<nonJobVars, subVars, cfgVars, msg, progressStream, busHistory, jobProgress, apiPc,
                   cancelJob, cancelsDone, workerVars, execVars, pluginVars,
                   sseVars, tickAfterCancel, errorSeen>>

\* `if USE_REDIS: await redis_client.publish_progress(status="cancelled",
\*  progress=job.progress, ...)`
CancelPublish ==
    /\ cancelPc = "publish"
    /\ progressStream' \in PublishProgress(progressStream, "cancelled",
                                           cancelJob.progress, 0, "cancel")
    /\ cancelPc' = "idle"
    /\ cancelsDone' = cancelsDone + 1
    /\ Notify(progressStream, progressStream')
    /\ UNCHANGED <<nonJobVars, cfgVars, rec, msg, busHistory, jobProgress, apiPc, cancelJob,
                   workerVars, execVars, pluginVars, sseVars, histVars>>

\* cancel_training / cancel_generation in single-process mode: the record is
\* the shared job object, no call suspends, nothing is published
\* (`if USE_REDIS:` is false).
CancelInProcess ==
    /\ ~useRedis
    /\ cancelsDone < MaxCancels
    /\ rec.status # "absent"
    /\ cancelsDone' = cancelsDone + 1
    /\ IF rec.status \in TERMINAL
         THEN UNCHANGED <<rec, acceptedCancels, cancelledRunning>>
         ELSE /\ rec' = [rec EXCEPT !.status = "cancelled"]
              /\ acceptedCancels' = acceptedCancels + 1
              /\ cancelledRunning' = (cancelledRunning \/ rec.status = "running")
    /\ UNCHANGED <<nonJobVars, subVars, cfgVars, msg, progressStream, busHistory, jobProgress, apiPc,
                   cancelPc, cancelJob, workerVars, execVars, pluginVars,
                   sseVars, cancelledQueued, tickAfterCancel, errorSeen>>

\* ================================================================ worker
\* JobProcessor.get_next_job + the head of process_job, for the observed job:
\* XREADGROUP delivers the message; _process_training_job /
\* _process_generation_job then starts with _mark_job_running.
\* accepted = FALSE: the job type is unknown, or TrainingConfig(**config_data) /
\* GenerationConfig(**config_data) raises on the payload; process_job goes to
\* _mark_job_failed without marking the job running.
WGetNextJob(accepted) ==
    /\ wphase = "idle"
    /\ msg = "queued"
    /\ msg' = "delivered"
    /\ wop' = IF accepted THEN "running" ELSE "failed"
    /\ wphase' = "read"
    /\ errorSeen' = (errorSeen \/ ~accepted)
    /\ UNCHANGED <<nonJobVars, subVars, cfgVars, rec, progressStream, busHistory, jobProgress, apiVars,
                   wjob, wstep, wLastEmitted, wRepeats, execVars, pluginVars,
                   sseVars, cancelHist>>

\* the status and the patch each worker write carries:
\* _mark_job_running, on_progress, _mark_job_completed, _mark_job_failed
WorkerPatch(job, op, step) ==
    CASE op = "running"   -> [job EXCEPT !.status = "running"]
      [] op = "progress"  -> [job EXCEPT !.status = "running",
                                         !.progress = Percentage(step),
                                         !.current_step = step]
      [] op = "completed" -> [job EXCEPT !.status = "completed", !.progress = 100]
      [] op = "failed"    -> [job EXCEPT !.status = "failed"]

\* the event each worker publish carries
WorkerEvent(op, step) ==
    CASE op = "running"   -> ProgressEvent("running", "none", 0, 0, "run")
      [] op = "progress"  -> ProgressEvent("running", "none", Percentage(step), step, "run")
      [] op = "completed" -> ProgressEvent("completed", "none", 100,
                                 IF jobType = "training" THEN MaxSteps ELSE 0, "run")
      [] op = "failed"    -> ProgressEvent("failed", "none", 0, 0, "run")

\* redis_client.update_job_status, first half: `job_data = await get_job(job_id)`;
\* `if not job_data: return`
WUpdateRead ==
    /\ wphase = "read"
    /\ wjob' = rec
    /\ wphase' = IF rec.status = "absent" THEN "publish" ELSE "write"
    /\ UNCHANGED <<nonJobVars, subVars, cfgVars, storeVars, apiVars, wop, wstep, wLastEmitted, wRepeats,
                   execVars, pluginVars, sseVars, histVars>>

\* redis_client.update_job_status, second half: `job_data["status"] = status;
\* job_data.update(extra_fields); await save_job(job_id, job_data)`
WUpdateWrite ==
    /\ wphase = "write"
    /\ rec' = WorkerPatch(wjob, wop, wstep)
    /\ wphase' = "publish"
    /\ UNCHANGED <<nonJobVars, subVars, cfgVars, msg, progressStream, busHistory, jobProgress, apiVars,
                   wop, wjob, wstep, wLastEmitted, wRepeats, execVars, pluginVars,
                   sseVars, histVars>>

\* `await redis_client.publish_progress(...)` that follows each update, and
\* where the worker goes next
WPublish ==
    /\ wphase = "publish"
    /\ progressStream' \in XAddProgress(progressStream, WorkerEvent(wop, wstep))
    /\ wphase' = CASE wop = "running"  -> "validate"
                   [] wop = "progress" -> "train"
                   [] OTHER            -> "ack"
    /\ Notify(progressStream, progressStream')
    /\ UNCHANGED <<nonJobVars, cfgVars, rec, msg, busHistory, jobProgress, apiVars, wop, wjob,
                   wstep, wLastEmitted, wRepeats, execVars, pluginVars, sseVars,
                   histVars>>

\* plugin.validate_config (training) / plugin.check_health (generation); on
\* success the worker enters plugin.train / plugin.generate, which resets the
\* plugin's flags (`self._cancelled = False; self._running = True`)
WValidate(valid) ==
    /\ wphase = "validate"
    /\ IF valid
         THEN /\ wphase' = "train"
              /\ wstep' = 0
              /\ wLastEmitted' = -1
              /\ pluginRunning' = TRUE
              /\ pluginCancelled' = FALSE
              /\ UNCHANGED wop
         ELSE /\ wop' = "failed"
              /\ wphase' = "read"
              /\ UNCHANGED <<wstep, wLastEmitted, pluginVars>>
    /\ errorSeen' = (errorSeen \/ ~valid)
    /\ UNCHANGED <<nonJobVars, subVars, cfgVars, storeVars, apiVars, wjob, wRepeats, execVars, sseVars,
                   cancelHist>>

\* the throttle at the head of the worker's training on_progress:
\* `if progress.current_step == last_emitted_step and
\*      current_time - last_emit_time < MIN_EMIT_INTERVAL: return`
WThrottled(step, lastStep, elapsed) == step = lastStep /\ ~elapsed

\* one iteration of the plugin's loop, with the call of progress_callback.
\*   mock plugins call `progress_callback(progress)` without await: the worker's
\*   callback is an `async def`, so the call only builds a coroutine object and
\*   the body never runs;
\*   AIToolkitPlugin / ComfyUIPlugin await it (asyncio.iscoroutinefunction).
\* advance: the step moved on; otherwise the same step is reported again
\* (AIToolkitPlugin reports on every iteration of its read loop).
WPluginStep(advance, elapsed) ==
    /\ wphase = "train"
    /\ ~pluginCancelled
    /\ IF advance
         THEN wstep < MaxSteps /\ wstep' = wstep + 1 /\ UNCHANGED wRepeats
         ELSE /\ pluginKind = "production" /\ jobType = "training"
              /\ wstep > 0 /\ wRepeats < MaxRepeats
              /\ wRepeats' = wRepeats + 1 /\ UNCHANGED wstep
    /\ tickAfterCancel' = (tickAfterCancel \/ cancelledRunning)
    /\ IF pluginKind = "mock"
         THEN UNCHANGED <<wphase, wop, wLastEmitted>>
         ELSE IF jobType = "training"
           THEN IF WThrottled(wstep', wLastEmitted, elapsed)
                  THEN UNCHANGED <<wphase, wop, wLastEmitted>>
                  ELSE /\ wLastEmitted' = wstep'
                       /\ wop' = "progress"
                       /\ wphase' = "read"
           ELSE \* generation: on_progress only publishes
                /\ wop' = "progress"
                /\ wphase' = "publish"
                /\ UNCHANGED wLastEmitted
    /\ UNCHANGED <<nonJobVars, subVars, cfgVars, storeVars, apiVars, wjob, execVars, pluginVars,
                   sseVars, acceptedCancels, cancelledRunning, cancelledQueued, errorSeen>>

\* plugin.train / plugin.generate returns: `if self._cancelled` gives a failed
\* result; otherwise the run ends after the last step, with success or not.
\* The worker goes to _mark_job_completed or _mark_job_failed.
WPluginReturn(success) ==
    /\ wphase = "train"
    /\ pluginCancelled \/ wstep = MaxSteps
    /\ wop' = IF success /\ ~pluginCancelled THEN "completed" ELSE "failed"
    /\ wphase' = "read"
    /\ pluginRunning' = FALSE
    /\ errorSeen' = (errorSeen \/ wop' = "failed")
    /\ UNCHANGED <<nonJobVars, subVars, cfgVars, storeVars, apiVars, wjob, wstep, wLastEmitted, wRepeats,
                   execVars, pluginCancelled, sseVars, cancelHist>>

\* process_job's `finally`: redis_client.acknowledge_job (XACK)
WAck ==
    /\ wphase = "ack"
    /\ msg' = "acked"
    /\ wphase' = "done"
    /\ UNCHANGED <<nonJobVars, subVars, cfgVars, rec, progressStream, busHistory, jobProgress, apiVars,
                   wop, wjob, wstep, wLastEmitted, wRepeats, execVars, pluginVars,
                   sseVars, histVars>>

\* ============================================================== executor
\* the emit_stage calls of execute_training_job, in order (the third is
\* followed by plugin.validate_config).  The call that comes next in the code,
\* emit_stage(TrainingStage.LOADING_MODEL, ...), names a member the TrainingStage
\* enum does not have: evaluating it raises AttributeError, inside the `try`.
StagesBeforeValidate == <<"initializing", "initializing", "initializing">>
StagesAfterValidate ==
    <<"initializing", "preparing_dataset", "preparing_dataset", "initializing">>

RECURSIVE EmitStages(_, _, _)
\* emit_stage(stage, message, progress_pct=0.0) for each stage of `stages`:
\* event_bus.publish of a running event with step = job.current_step
EmitStages(hist, stages, step) ==
    IF stages = <<>> THEN hist
    ELSE EmitStages(BusPublish(hist, ProgressEvent("running", Head(stages), 0, step, "run")),
                    Tail(stages), step)

\* the `except Exception` block of the executors: the record becomes failed;
\* execute_training_job publishes a failed event with progress_pct=job.progress
ExecFailedRec(job) == [job EXCEPT !.status = "failed"]
ExecFailedBus(hist, job) ==
    IF jobType = "training"
      THEN BusPublish(hist, ProgressEvent("failed", "failed", job.progress,
                                          job.current_step, "run"))
      ELSE hist
ExecFailedProgress(jp, job) ==
    Append(jp, ProgressEvent("failed", "none", job.progress, 0, "run"))

\* the success branch: emit_stage(EXPORTING, 99), the record becomes completed
\* with progress 100, the completed event is published
ExecCompletedRec(job) ==
    IF jobType = "training"
      THEN [job EXCEPT !.status = "completed", !.progress = 100,
                       !.current_step = MaxSteps]
      ELSE [job EXCEPT !.status = "completed", !.progress = 100]
ExecCompletedBus(hist, job) ==
    IF jobType = "training"
      THEN BusPublish(
             BusPublish(hist, ProgressEvent("running", "exporting", 99,
                                            job.current_step, "run")),
             ProgressEvent("completed", "completed", 100, MaxSteps, "run"))
      ELSE hist
ExecCompletedProgress(jp) ==
    Append(jp, ProgressEvent("completed", "none", 100,
                             IF jobType = "training" THEN MaxSteps ELSE 0, "run"))

\* execute_training_job / execute_generation_job from their start to their
\* first real suspension: `job.status = RUNNING`, the stage events,
\* _record_progress(running), validate_config / check_health.
\* ok = FALSE: validate_config / check_health refuses, the executor raises.
\*   generation: plugin.generate runs up to the asyncio.sleep of its first step;
\*   training: the stage events up to "Ready to train", then the AttributeError
\*   of TrainingStage.LOADING_MODEL: plugin.train is never called and the
\*   `except Exception` block runs.
EStart(ok) ==
    /\ epc = "scheduled"
    /\ LET running == [rec EXCEPT !.status = "running"]
           hist1 == IF jobType = "training"
                      THEN EmitStages(busHistory, StagesBeforeValidate, rec.current_step)
                      ELSE busHistory
           hist2 == IF ok THEN EmitStages(hist1, StagesAfterValidate, rec.current_step)
                          ELSE hist1
           jp1 == Append(jobProgress, ProgressEvent("running", "none", 0, 0, "run"))
       IN IF ok /\ jobType = "generation"
            THEN /\ rec' = running
                 /\ busHistory' = hist1
                 /\ jobProgress' = jp1
                 /\ epc' = "sleep"
                 /\ pluginRunning' = TRUE
                 /\ pluginCancelled' = FALSE
            ELSE /\ rec' = ExecFailedRec(running)
                 /\ busHistory' = ExecFailedBus(hist2, running)
                 /\ jobProgress' = ExecFailedProgress(jp1, running)
                 /\ epc' = "done"
                 /\ UNCHANGED pluginVars
    /\ estep' = 0
    /\ errorSeen' = (errorSeen \/ ~ok \/ jobType = "training")
    /\ Notify(busHistory, busHistory')
    /\ UNCHANGED <<nonJobVars, cfgVars, msg, progressStream, apiVars, workerVars, tasks,
                   lastSamplePath, sseVars, cancelHist>>

\* MockTrainingPlugin.train: the sample interval
SampleInterval ==
    LET tenth == IF MaxSteps \div 10 > 1 THEN MaxSteps \div 10 ELSE 1
        third == IF MaxSteps \div 3 > 1 THEN MaxSteps \div 3 ELSE 1
    IN IF MaxSteps < 20 THEN third ELSE tenth

\* the TrainingProgress the mock plugin reports at `step`; sample_path is the
\* sample of that step (0 stands for None)
Report(step) ==
    [step |-> step,
     sample_path |-> IF step % SampleInterval = 0 THEN step ELSE 0]

\* one step of the mock plugin after its asyncio.sleep, and whatever follows
\* without suspension.  Tasks created by on_progress are in the loop's ready
\* queue and run before the sleep's timer fires, hence tasks = <<>> here.
\*   training: `on_progress` is the sync wrapper,
\*             asyncio.create_task(emit_progress(progress));
\*   generation: the sync on_progress sets job.progress and records the event.
\* After the last step the plugin returns and the executor runs to its end:
\* ok says whether the plugin's result is a success.
EPluginStep(ok) ==
    /\ epc = "sleep"
    /\ tasks = <<>>
    /\ estep < MaxSteps
    /\ estep' = estep + 1
    /\ tickAfterCancel' = (tickAfterCancel \/ cancelledRunning)
    /\ LET step == estep + 1
           rec1 == IF jobType = "generation"
                     THEN [rec EXCEPT !.progress = Percentage(step)]
                     ELSE rec
           jp1 == IF jobType = "generation"
                    THEN Append(jobProgress,
                           ProgressEvent("running", "none", Percentage(step), 0, "run"))
                    ELSE jobProgress
           finished == step = MaxSteps \/ pluginCancelled
           success == ok /\ step = MaxSteps
       IN /\ tasks' = IF jobType = "training" THEN Append(tasks, Report(step))
                                              ELSE tasks
          /\ errorSeen' = (errorSeen \/ (finished /\ ~success))
          /\ IF ~finished
               THEN /\ rec' = rec1
                    /\ jobProgress' = jp1
                    /\ UNCHANGED <<busHistory, epc, pluginRunning>>
               ELSE /\ epc' = "done"
                    /\ pluginRunning' = FALSE
                    /\ IF success
                         THEN /\ rec' = ExecCompletedRec(rec1)
                              /\ busHistory' = ExecCompletedBus(busHistory, rec1)
                              /\ jobProgress' = ExecCompletedProgress(jp1)
                         ELSE /\ rec' = ExecFailedRec(rec1)
                              /\ busHistory' = ExecFailedBus(busHistory, rec1)
                              /\ jobProgress' = ExecFailedProgress(jp1, rec1)
    /\ Notify(busHistory, busHistory')
    /\ UNCHANGED <<nonJobVars, cfgVars, msg, progressStream, apiVars, workerVars,
                   lastSamplePath, pluginCancelled, sseVars, acceptedCancels,
                   cancelledRunning, cancelledQueued>>

\* a task created by the sync wrapper runs emit_progress(progress): the record's
\* current_step and progress, an ArtifactEvent for a new sample path, the
\* running progress event, _record_progress.  It runs while the executor is
\* suspended in the plugin's sleep, or after the executor returned.
\* a loop that would run the task created last
NewestTask(ts) == Len(ts)

\* the event loop runs the tasks made by asyncio.create_task in the order of
\* their creation: the position in `tasks` of the one that runs next
ReadyTask(ts) == CHOOSE i \in DOMAIN ts : \A j \in DOMAIN ts : i <= j

\* ts without its i-th task
WithoutTask(ts, i) == SubSeq(ts, 1, i - 1) \o SubSeq(ts, i + 1, Len(ts))

\* emit_progress run as a task. Nothing in it suspends (the in-process bus
\* publishes without waiting), so the task runs to its end in one step.
ERunTask ==
    /\ tasks # <<>>
    /\ epc \in {"sleep", "done"}
    /\ LET r == tasks[ReadyTask(tasks)]
           newSample == r.sample_path # 0 /\ r.sample_path # lastSamplePath
           hist1 == IF newSample
                      THEN BusPublish(busHistory, ArtifactEvent(r.sample_path, r.step))
                      ELSE busHistory
       IN /\ rec' = [rec EXCEPT !.current_step = r.step,
                                !.progress = Percentage(r.step)]
          /\ lastSamplePath' = IF newSample THEN r.sample_path ELSE lastSamplePath
          /\ busHistory' = BusPublish(hist1,
                 ProgressEvent("running", "training", Percentage(r.step), r.step, "run"))
          /\ jobProgress' = Append(jobProgress,
                 ProgressEvent("running", "none", Percentage(r.step), r.step, "run"))
    /\ tasks' = WithoutTask(tasks, ReadyTask(tasks))
    /\ Notify(busHistory, busHistory')
    /\ UNCHANGED <<nonJobVars, cfgVars, msg, progressStream, apiVars, workerVars, epc, estep,
                   pluginVars, sseVars, histVars>>

\* ============================================================ SSE stream
\* one SSE frame: the event name and the status its data carries
Frame(status) ==
    [event |-> IF status \in TERMINAL THEN "complete" ELSE "progress",
     status |-> status]

RECURSIVE ProgressFrames(_)
\* the M1 branch yields every new _job_progress event as a `progress` frame
ProgressFrames(evs) ==
    IF evs = <<>> THEN <<>>
    ELSE <<[event |-> "progress", status |-> Head(evs).status]>>
         \o ProgressFrames(Tail(evs))

\* stream_training_progress / stream_generation_progress: the handler reads the
\* job (404 when absent) and the generator yields the initial `progress` frame
SseOpen ==
    /\ ssePc = "closed"
    /\ rec.status # "absent"
    /\ ssePc' = "open"
    /\ sseCursor' = 0
    /\ sseFrames' = <<[event |-> "progress", status |-> rec.status]>>
    /\ UNCHANGED <<nonJobVars, subVars, cfgVars, storeVars, apiVars, workerVars, execVars, pluginVars,
                   histVars>>

\* queue mode: redis_client.stream_progress reads the progress stream forward
\* from "0"; each entry becomes a frame, `complete` for a terminal status, and
\* the generator returns after the first terminal entry
SseReadStream ==
    /\ useRedis
    /\ ssePc = "open"
    /\ sseCursor < Len(progressStream)
    /\ LET ev == progressStream[sseCursor + 1]
       IN /\ sseFrames' = Append(sseFrames, Frame(ev.status))
          /\ ssePc' = IF ev.status \in TERMINAL THEN "ended" ELSE "open"
    /\ sseCursor' = sseCursor + 1
    /\ UNCHANGED <<nonJobVars, subVars, cfgVars, storeVars, apiVars, workerVars, execVars, pluginVars,
                   histVars>>

\* single-process mode: one round of the poll loop after its asyncio.sleep:
\* the new _job_progress events as `progress` frames, then one `complete`
\* frame carrying the record's status when that status is terminal
SsePoll ==
    /\ ~useRedis
    /\ ssePc = "open"
    /\ sseCursor < Len(jobProgress) \/ rec.status \in TERMINAL
    /\ LET new == SubSeq(jobProgress, sseCursor + 1, Len(jobProgress))
           frames1 == sseFrames \o ProgressFrames(new)
       IN IF rec.status \in TERMINAL
            THEN /\ sseFrames' = Append(frames1, [event |-> "complete",
                                                  status |-> rec.status])
                 /\ ssePc' = "ended"
            ELSE /\ sseFrames' = frames1
                 /\ ssePc' = "open"
    /\ sseCursor' = Len(jobProgress)
    /\ UNCHANGED <<nonJobVars, subVars, cfgVars, storeVars, apiVars, workerVars, execVars, pluginVars,
                   histVars>>

\* ========================================================== subscribers
\* no client is connected to the job's event stream
SubsIdle ==
    /\ subPc = [s \in Subs |-> "none"]
    /\ subQueue = [s \in Subs |-> <<>>]
    /\ subCursor = [s \in Subs |-> 0]
    /\ subSeen = [s \in Subs |-> <<>>]
    /\ owed = [s \in Subs |-> {}]

\* a subscription that goes on after a terminal event
NeverEnds(status) == FALSE

\* `if event.get("status") in ("completed", "failed", "cancelled"): return` of
\* InMemoryEventBus.subscribe, and the same test of stream_progress
Ends(status) == status \in TERMINAL

\* stream_job_events / event_generator up to the subscription, for a client
\* that got the job id from the submission's response:
\*   job_data = await redis_client.get_job(job_id); the initial frame;
\*   `if job_data and job_data.get("status") in (terminal): return`;
\*   queue mode: redis_client.stream_progress(job_id) starts at last_id = "0";
\*   single-process mode: the record is not in Redis (job_data is None) and
\*   event_bus.subscribe(job_id) registers a new, empty queue.
SubConnect(s) ==
    /\ subPc[s] = "none"
    /\ apiPc = "submitted"
    /\ subPc' = [subPc EXCEPT ![s] =
          IF useRedis /\ rec.status \in TERMINAL THEN "ended" ELSE "subscribed"]
    /\ subQueue' = [subQueue EXCEPT ![s] = <<>>]
    /\ subCursor' = [subCursor EXCEPT ![s] = 0]
    /\ UNCHANGED <<nonJobVars, cfgVars, storeVars, apiVars, workerVars, execVars,
                   pluginVars, sseVars, histVars, subSeen, owed>>

\* InMemoryEventBus.subscribe: `event = await queue.get(); yield event`, and
\* on a terminal status `return` (the `finally` removes the queue)
SubGet(s) ==
    /\ ~useRedis
    /\ subPc[s] = "subscribed"
    /\ subQueue[s] # <<>>
    /\ LET e == Head(subQueue[s])
       IN /\ subSeen' = [subSeen EXCEPT ![s] = Append(@, e)]
          /\ IF Ends(e[2].status)
               THEN /\ subPc' = [subPc EXCEPT ![s] = "ended"]
                    /\ subQueue' = [subQueue EXCEPT ![s] = <<>>]
               ELSE /\ subQueue' = [subQueue EXCEPT ![s] = Tail(@)]
                    /\ UNCHANGED subPc
    /\ UNCHANGED <<nonJobVars, cfgVars, storeVars, apiVars, workerVars, execVars,
                   pluginVars, sseVars, histVars, subCursor, owed>>

\* redis_client.stream_progress: XREAD from last_id returns the entries after
\* it; each is yielded with `last_id = message_id`, and the generator returns
\* after an entry with a terminal status
SubReadStream(s) ==
    /\ useRedis
    /\ subPc[s] = "subscribed"
    /\ subCursor[s] < Len(progressStream)
    /\ LET id == subCursor[s] + 1
           e == <<id, progressStream[id]>>
       IN /\ subSeen' = [subSeen EXCEPT ![s] = Append(@, e)]
          /\ subCursor' = [subCursor EXCEPT ![s] = id]
          /\ subPc' = [subPc EXCEPT ![s] =
                IF Ends(e[2].status) THEN "ended" ELSE "subscribed"]
    /\ UNCHANGED <<nonJobVars, cfgVars, storeVars, apiVars, workerVars, execVars,
                   pluginVars, sseVars, histVars, subQueue, owed>>

\* ========================================================== stream queue
STREAM_TRAINING == "training"
STREAM_GENERATION == "generation"
Streams == {STREAM_TRAINING, STREAM_GENERATION}
Workers == 1 .. NumWorkers
NoMessage == <<"none", 0>>

\* the queue before anything was submitted and before any worker started
QueueIdle ==
    /\ streamLen = [s \in Streams |-> 0]
    /\ groupExists = [s \in Streams |-> FALSE]
    /\ lastDelivered = [s \in Streams |-> 0]
    /\ pending = [s \in Streams |-> <<>>]
    /\ qpc = [w \in Workers |-> "start"]
    /\ current = [w \in Workers |-> NoMessage]
    /\ deliveries = [s \in Streams |-> <<>>]
    /\ lastDequeued = [w \in Workers |-> "none"]
    /\ passedOver = [w \in Workers |-> 0]

\* ========================================================== correlation IDs
Requests == 1 .. NumRequests

\* ContextVar("correlation_id", default=None)
NoCid == "None"

\* no request was received and no worker has taken a job
TraceIdle ==
    /\ reqPc = [r \in Requests |-> "new"]
    /\ apiCtx = [r \in Requests |-> NoCid]
    /\ trainingStream = <<>>
    /\ traceDelivered = 0
    /\ workerCtx = [w \in Workers |-> NoCid]
    /\ workerJob = [w \in Workers |-> 0]

\* _process_training_job before plugin.train: `last_emitted_step = -1`,
\* `last_emit_time = 0.0`; the clock is far from 0 (seconds since the epoch)
ThrottleIdle ==
    /\ now = 10 * MIN_EMIT_INTERVAL
    /\ reports = 0
    /\ reported_step = 0
    /\ last_emitted_step = -1
    /\ last_emit_time = 0
    /\ emitted = <<>>

\* _run_training before its read loop: `current_step = 0`
ParserIdle ==
    /\ current_step = 0
    /\ callbackSteps = <<>>
    /\ regressions = 0

NoResponse == [status_code |-> 0, detail |-> ""]

\* no training submission was received
SubmitIdle ==
    /\ sentKeys = [r \in Requests |-> {}]
    /\ passesChecks = [r \in Requests |-> FALSE]
    /\ response = [r \in Requests |-> NoResponse]
    /\ jobStore = {}
    /\ dispatched = {}

Clients == {"10.0.0.1", "10.0.0.2"}

\* no request reached a rate-limited endpoint
RateIdle ==
    /\ endpoint = "generate_images"
    /\ clock = 0
    /\ limiterRequests = [c \in Clients |-> <<>>]
    /\ admitted = [c \in Clients |-> <<>>]
    /\ rateCalls = 0

\* no consumer group was destroyed
HealIdle ==
    /\ groupLosses = 0
    /\ lostAt = [s \in Streams |-> -1]

\* nothing was submitted to the stream
EnvIdle ==
    /\ envStream = <<>>
    /\ envArgs = <<>>
    /\ envOut = <<>>

NoUelrResponse == [status_code |-> 0]

\* the UELR log directory is empty
UelrIdle ==
    /\ utcnow = 0
    /\ files = <<>>
    /\ index = <<>>
    /\ acceptedSteps = <<>>
    /\ uelrResponse = NoUelrResponse
    /\ uelrOps = 0

\* no store call of the worker has raised
FaultIdle == inExcept = FALSE

\* the variables that only some specifications observe, at rest
ExtrasIdle ==
    /\ TraceIdle /\ ThrottleIdle /\ ParserIdle /\ SubmitIdle /\ RateIdle /\ HealIdle /\ EnvIdle /\ UelrIdle /\ FaultIdle

\* ================================================== specification SpecJobs
InitJobs ==
    /\ useRedis \in BOOLEAN
    /\ jobType \in {"training", "generation"}
    \* the worker registers mock plugins in fast-test mode and production
    \* plugins otherwise; the API's executor always registers the mock plugins
    /\ pluginKind \in IF useRedis THEN {"mock", "production"} ELSE {"mock"}
    /\ rec = NoJob
    /\ msg = "none"
    /\ progressStream = <<>>
    /\ busHistory = <<>>
    /\ jobProgress = <<>>
    /\ apiPc = "init"
    /\ cancelPc = "idle"
    /\ cancelJob = NoJob
    /\ cancelsDone = 0
    /\ wphase = "idle"
    /\ wop = "running"
    /\ wjob = NoJob
    /\ wstep = 0
    /\ wLastEmitted = -1
    /\ wRepeats = 0
    /\ epc = "none"
    /\ estep = 0
    /\ tasks = <<>>
    /\ lastSamplePath = 0
    /\ pluginRunning = FALSE
    /\ pluginCancelled = FALSE
    /\ ssePc = "closed"
    /\ sseCursor = 0
    /\ sseFrames = <<>>
    /\ acceptedCancels = 0
    /\ cancelledRunning = FALSE
    /\ cancelledQueued = FALSE
    /\ tickAfterCancel = FALSE
    /\ errorSeen = FALSE
    /\ SubsIdle
    /\ QueueIdle
    /\ ExtrasIdle

NextJobs ==
    \/ ApiSaveJob
    \/ ApiSubmitJob
    \/ CancelRead
    \/ CancelSave
    \/ CancelPublish
    \/ CancelInProcess
    \/ \E accepted \in BOOLEAN : WGetNextJob(accepted)
    \/ WUpdateRead
    \/ WUpdateWrite
    \/ WPublish
    \/ \E valid \in BOOLEAN : WValidate(valid)
    \/ \E advance \in BOOLEAN, elapsed \in BOOLEAN : WPluginStep(advance, elapsed)
    \/ \E success \in BOOLEAN : WPluginReturn(success)
    \/ WAck
    \/ \E ok \in BOOLEAN : EStart(ok)
    \/ \E ok \in BOOLEAN : EPluginStep(ok)
    \/ SseOpen
    \/ SseReadStream
    \/ SsePoll

SpecJobs == InitJobs /\ [][NextJobs]_vars

\* ================================================== specification SpecSubs
\* the job's run with clients on its event stream (routes/jobs.py)
NextSubs ==
    \/ ApiSaveJob
    \/ ApiSubmitJob
    \/ CancelRead
    \/ CancelSave
    \/ CancelPublish
    \/ CancelInProcess
    \/ \E accepted \in BOOLEAN : WGetNextJob(accepted)
    \/ WUpdateRead
    \/ WUpdateWrite
    \/ WPublish
    \/ \E valid \in BOOLEAN : WValidate(valid)
    \/ \E advance \in BOOLEAN, elapsed \in BOOLEAN : WPluginStep(advance, elapsed)
    \/ \E success \in BOOLEAN : WPluginReturn(success)
    \/ WAck
    \/ \E ok \in BOOLEAN : EStart(ok)
    \/ \E ok \in BOOLEAN : EPluginStep(ok)
    \/ \E s \in Subs : SubConnect(s)
    \/ \E s \in Subs : SubGet(s)
    \/ \E s \in Subs : SubReadStream(s)

SpecSubs == InitJobs /\ [][NextSubs]_vars

\* =================================================== specification SpecBus
\* the in-process bus and the progress stream on their own: any caller
\* publishes any event for the job, clients subscribe and read
BusEventKinds ==
    {ProgressEvent(st, "none", 0, 0, "run") : st \in {"running"} \cup TERMINAL}

\* InMemoryEventBus.publish(job_id, event)
PublishOnBus(ev) ==
    /\ ~useRedis
    /\ Len(busHistory) < MaxEvents
    /\ busHistory' = BusPublish(busHistory, ev)
    /\ Notify(busHistory, busHistory')
    /\ UNCHANGED <<nonJobVars, cfgVars, rec, msg, progressStream, jobProgress, apiVars,
                   workerVars, execVars, pluginVars, sseVars, histVars>>

\* redis_client.publish_progress(job_id, status, progress, ...)
PublishOnStream(ev) ==
    /\ useRedis
    /\ Len(progressStream) < MaxEvents
    /\ progressStream' \in XAddProgress(progressStream, ev)
    /\ Notify(progressStream, progressStream')
    /\ UNCHANGED <<nonJobVars, cfgVars, rec, msg, busHistory, jobProgress, apiVars,
                   workerVars, execVars, pluginVars, sseVars, histVars>>

\* a job that was submitted and has published nothing yet
InitBus ==
    /\ useRedis \in BOOLEAN
    /\ jobType = "training"
    /\ pluginKind = "mock"
    /\ rec = NewJob
    /\ msg = IF useRedis THEN "queued" ELSE "none"
    /\ progressStream = <<>>
    /\ busHistory = <<>>
    /\ jobProgress = <<>>
    /\ apiPc = "submitted"
    /\ cancelPc = "idle"
    /\ cancelJob = NoJob
    /\ cancelsDone = 0
    /\ wphase = "idle"
    /\ wop = "running"
    /\ wjob = NoJob
    /\ wstep = 0
    /\ wLastEmitted = -1
    /\ wRepeats = 0
    /\ epc = IF useRedis THEN "none" ELSE "scheduled"
    /\ estep = 0
    /\ tasks = <<>>
    /\ lastSamplePath = 0
    /\ pluginRunning = FALSE
    /\ pluginCancelled = FALSE
    /\ ssePc = "closed"
    /\ sseCursor = 0
    /\ sseFrames = <<>>
    /\ acceptedCancels = 0
    /\ cancelledRunning = FALSE
    /\ cancelledQueued = FALSE
    /\ tickAfterCancel = FALSE
    /\ errorSeen = FALSE
    /\ SubsIdle
    /\ QueueIdle
    /\ ExtrasIdle

NextBus ==
    \/ \E ev \in BusEventKinds : PublishOnBus(ev)
    \/ \E ev \in BusEventKinds : PublishOnStream(ev)
    \/ \E s \in Subs : SubConnect(s)
    \/ \E s \in Subs : SubGet(s)
    \/ \E s \in Subs : SubReadStream(s)

SpecBus == InitBus /\ [][NextBus]_vars

\* =============================================== specification SpecHistory
\* the retained history of one job under a long run of publishes; the events
\* are numbered in publish order (field step)
NextNumber(hist) == IF hist = <<>> THEN 1 ELSE hist[Len(hist)].step + 1

Numbered(hist) == ProgressEvent("running", "none", 0, NextNumber(hist), "run")

\* InMemoryEventBus.publish(job_id, event), single-process mode
HistPublishOnBus ==
    /\ ~useRedis
    /\ NextNumber(busHistory) <= MaxPublishes
    /\ busHistory' = BusPublish(busHistory, Numbered(busHistory))
    /\ UNCHANGED <<nonJobVars, subVars, cfgVars, rec, msg, progressStream, jobProgress,
                   apiVars, workerVars, execVars, pluginVars, sseVars, histVars>>

\* redis_client.publish_progress(job_id, ...), queue mode
HistPublishOnStream ==
    /\ useRedis
    /\ NextNumber(progressStream) <= MaxPublishes
    /\ progressStream' \in XAddProgress(progressStream, Numbered(progressStream))
    /\ UNCHANGED <<nonJobVars, subVars, cfgVars, rec, msg, busHistory, jobProgress,
                   apiVars, workerVars, execVars, pluginVars, sseVars, histVars>>

NextHistory ==
    \/ HistPublishOnBus
    \/ HistPublishOnStream

SpecHistory == InitBus /\ [][NextHistory]_vars

\* ================================================= specification SpecQueue
\* the job-lifecycle variables while only the queue is observed
JobsIdle ==
    /\ useRedis = TRUE
    /\ jobType = "training"
    /\ pluginKind = "mock"
    /\ rec = NoJob
    /\ msg = "none"
    /\ progressStream = <<>>
    /\ busHistory = <<>>
    /\ jobProgress = <<>>
    /\ apiPc = "init"
    /\ cancelPc = "idle"
    /\ cancelJob = NoJob
    /\ cancelsDone = 0
    /\ wphase = "idle"
    /\ wop = "running"
    /\ wjob = NoJob
    /\ wstep = 0
    /\ wLastEmitted = -1
    /\ wRepeats = 0
    /\ epc = "none"
    /\ estep = 0
    /\ tasks = <<>>
    /\ lastSamplePath = 0
    /\ pluginRunning = FALSE
    /\ pluginCancelled = FALSE
    /\ ssePc = "closed"
    /\ sseCursor = 0
    /\ sseFrames = <<>>
    /\ acceptedCancels = 0
    /\ cancelledRunning = FALSE
    /\ cancelledQueued = FALSE
    /\ tickAfterCancel = FALSE
    /\ errorSeen = FALSE
    /\ SubsIdle

\* redis_client.submit_job: XADD appends one entry to the stream
QSubmit(s) ==
    /\ streamLen[s] < MaxMsgs
    /\ streamLen' = [streamLen EXCEPT ![s] = @ + 1]
    /\ UNCHANGED <<nonQueueVars, groupExists, lastDelivered, pending, qpc, current,
                   deliveries, lastDequeued, passedOver>>

\* a new group created at id="$" would start behind the stream's entries
EnsuredAtEnd == [s \in Streams |-> IF groupExists[s] THEN lastDelivered[s] ELSE streamLen[s]]

\* redis_client.ensure_consumer_groups: xgroup_create(stream, "workers", id="0",
\* mkstream=True) for both streams; BUSYGROUP (the group exists) is ignored and
\* leaves the group as it is
EnsuredLastDelivered == [s \in Streams |-> IF groupExists[s] THEN lastDelivered[s] ELSE 0]

\* JobProcessor.initialize at worker start
QWorkerStart(w) ==
    /\ qpc[w] = "start"
    /\ groupExists' = [s \in Streams |-> TRUE]
    /\ lastDelivered' = EnsuredLastDelivered
    /\ qpc' = [qpc EXCEPT ![w] = "poll_training"]
    /\ UNCHANGED <<nonQueueVars, streamLen, pending, current, deliveries, lastDequeued,
                   passedOver>>

\* a consume that replays the stream from its start (cursor "0" instead of ">")
NextNewReplay(s) == IF streamLen[s] >= 1 THEN 1 ELSE 0

\* the id XREADGROUP GROUP workers <consumer> COUNT 1 STREAMS <s> ">" returns:
\* the first entry after the group's last-delivered id, 0 when there is none
NextNew(s) == IF lastDelivered[s] < streamLen[s] THEN lastDelivered[s] + 1 ELSE 0

\* redis_client.consume_jobs(stream=s, consumer_name=w, count=1) as called by
\* JobProcessor.get_next_job; `got` is what get_next_job does with a message,
\* `empty` where the worker goes when consume returns [].
\* NOGROUP: ensure_consumer_groups() and return [].
Consume(w, s, empty) ==
    IF ~groupExists[s]
      THEN /\ groupExists' = [t \in Streams |-> TRUE]
           /\ lastDelivered' = EnsuredLastDelivered
           /\ qpc' = [qpc EXCEPT ![w] = empty]
           /\ UNCHANGED <<pending, current, deliveries, lastDequeued>>
      ELSE IF NextNew(s) = 0
        THEN /\ qpc' = [qpc EXCEPT ![w] = empty]
             /\ UNCHANGED <<groupExists, lastDelivered, pending, current,
                            deliveries, lastDequeued>>
        ELSE /\ lastDelivered' = [lastDelivered EXCEPT ![s] = NextNew(s)]
             /\ pending' = [pending EXCEPT ![s] = Append(@, <<NextNew(s), w>>)]
             /\ current' = [current EXCEPT ![w] = <<s, NextNew(s)>>]
             /\ deliveries' = [deliveries EXCEPT ![s] = Append(@, NextNew(s))]
             /\ lastDequeued' = [lastDequeued EXCEPT ![w] = s]
             /\ qpc' = [qpc EXCEPT ![w] = "processing"]
             /\ UNCHANGED groupExists

\* get_next_job, first half: "Try training stream first"
QPollTraining(w) ==
    /\ qpc[w] = "poll_training"
    /\ Consume(w, STREAM_TRAINING, "poll_generation")
    /\ passedOver' = [passedOver EXCEPT ![w] =
          IF groupExists[STREAM_TRAINING] /\ NextNew(STREAM_TRAINING) # 0
               /\ NextNew(STREAM_GENERATION) # 0
            THEN @ + 1 ELSE @]
    /\ UNCHANGED <<nonQueueVars, streamLen>>

\* get_next_job, second half: "Try generation stream"; when it is empty too,
\* get_next_job returns None and _run_loop sleeps and polls again
QPollGeneration(w) ==
    /\ qpc[w] = "poll_generation"
    /\ Consume(w, STREAM_GENERATION, "poll_training")
    /\ passedOver' = [passedOver EXCEPT ![w] = 0]
    /\ UNCHANGED <<nonQueueVars, streamLen>>

\* process_job as the queue sees it: the job runs and the `finally` block
\* acknowledges the message (XACK removes it from the pending entries)
QProcessJob(w) ==
    /\ qpc[w] = "processing"
    /\ LET s == current[w][1]
           id == current[w][2]
       IN pending' = [pending EXCEPT ![s] = SelectSeq(@, LAMBDA e : e[1] # id)]
    /\ current' = [current EXCEPT ![w] = NoMessage]
    /\ qpc' = [qpc EXCEPT ![w] = "poll_training"]
    /\ UNCHANGED <<nonQueueVars, streamLen, groupExists, lastDelivered, deliveries,
                   lastDequeued, passedOver>>

\* the worker process dies between consume and acknowledge
QCrash(w) ==
    /\ qpc[w] = "processing"
    /\ Cardinality({v \in Workers : qpc[v] = "crashed"}) < MaxCrashes
    /\ qpc' = [qpc EXCEPT ![w] = "crashed"]
    /\ UNCHANGED <<nonQueueVars, streamLen, groupExists, lastDelivered, pending,
                   current, deliveries, lastDequeued, passedOver>>

InitQueue == JobsIdle /\ QueueIdle /\ ExtrasIdle

NextQueue ==
    \/ \E s \in Streams : QSubmit(s)
    \/ \E w \in Workers : QWorkerStart(w)
    \/ \E w \in Workers : QPollTraining(w)
    \/ \E w \in Workers : QPollGeneration(w)
    \/ \E w \in Workers : QProcessJob(w)
    \/ \E w \in Workers : QCrash(w)

SpecQueue == InitQueue /\ [][NextQueue]_vars

\* the worker loop keeps running: every live worker eventually takes its next
\* step (poll, process and acknowledge); submissions and crashes are not forced
FairSpecQueue ==
    /\ SpecQueue
    /\ \A w \in Workers :
         /\ WF_vars(QWorkerStart(w))
         /\ WF_vars(QPollTraining(w))
         /\ WF_vars(QPollGeneration(w))
         /\ WF_vars(QProcessJob(w))

\* ================================================= specification SpecTrace
\* the X-Correlation-ID header values a client sends; "" stands for no header
HeaderValues == {"", "c1", "c2"}

\* CorrelationIDMiddleware.dispatch: the header's value, or a generated
\* f"req-{uuid4().hex[:12]}" (unique per request) when it is missing or empty
RequestCid(r, header) == IF header = "" THEN "req-" \o ToString(r) ELSE header

\* CorrelationIDMiddleware.dispatch of request r: set_correlation_id(...) in
\* the request's context, then call_next
TraceDispatch(r, header) ==
    /\ reqPc[r] = "new"
    /\ apiCtx' = [apiCtx EXCEPT ![r] = RequestCid(r, header)]
    /\ reqPc' = [reqPc EXCEPT ![r] = "handling"]
    /\ UNCHANGED <<nonTraceVars, trainingStream, traceDelivered, workerCtx, workerJob>>

\* an envelope that loses the correlation ID
EnvelopeCidDropped(correlation_id) == ""

\* submit_job: `"correlation_id": correlation_id or ""`
EnvelopeCid(correlation_id) == IF correlation_id = NoCid THEN "" ELSE correlation_id

\* start_training of request r in queue mode: `correlation_id =
\* get_correlation_id()`, then redis_client.submit_job(..., correlation_id=...)
\* XADDs the envelope; the job's id stands for the request that submitted it
TraceSubmit(r) ==
    /\ reqPc[r] = "handling"
    /\ trainingStream' = Append(trainingStream,
            [id |-> r, correlation_id |-> EnvelopeCid(apiCtx[r])])
    /\ reqPc' = [reqPc EXCEPT ![r] = "done"]
    /\ UNCHANGED <<nonTraceVars, apiCtx, traceDelivered, workerCtx, workerJob>>

\* process_job: `correlation_id = job.get("correlation_id", f"job-{job_id}")`;
\* the envelope always carries the key, so the default is never taken
JobCid(job) == job.correlation_id

\* worker w: get_next_job returns the next envelope of the stream, process_job
\* starts with set_correlation_id(correlation_id)
TraceProcessJob(w) ==
    /\ workerJob[w] = 0
    /\ traceDelivered < Len(trainingStream)
    /\ traceDelivered' = traceDelivered + 1
    /\ LET job == trainingStream[traceDelivered + 1]
       IN /\ workerCtx' = [workerCtx EXCEPT ![w] = JobCid(job)]
          /\ workerJob' = [workerJob EXCEPT ![w] = job.id]
    /\ UNCHANGED <<nonTraceVars, reqPc, apiCtx, trainingStream>>

\* process_job returns: `self._current_job = None`; the context keeps its value
TraceJobDone(w) ==
    /\ workerJob[w] # 0
    /\ workerJob' = [workerJob EXCEPT ![w] = 0]
    /\ UNCHANGED <<nonTraceVars, reqPc, apiCtx, trainingStream, traceDelivered, workerCtx>>

InitTrace == JobsIdle /\ QueueIdle /\ ExtrasIdle

NextTrace ==
    \/ \E r \in Requests, header \in HeaderValues : TraceDispatch(r, header)
    \/ \E r \in Requests : TraceSubmit(r)
    \/ \E w \in Workers : TraceProcessJob(w)
    \/ \E w \in Workers : TraceJobDone(w)

SpecTrace == InitTrace /\ [][NextTrace]_vars

\* ============================================== specification SpecThrottle
\* the time that passes between two progress reports, in milliseconds
Delays == {100, MIN_EMIT_INTERVAL}

\* AIToolkitPlugin._run_training makes a progress report (`if progress_callback
\* and current_step > 0`, on every round of its read loop, the step advanced or
\* not) and awaits the worker's on_progress:
\*   current_time = time.time(); the throttle; then
\*   `last_emitted_step = progress.current_step; last_emit_time = current_time`
\*   and the record update and publish_progress of the report.
ThrottleReport(advance, delay) ==
    /\ reports < MaxReports
    /\ reports' = reports + 1
    /\ now' = now + delay
    /\ IF advance THEN reported_step < MaxSteps /\ reported_step' = reported_step + 1
                  ELSE reported_step > 0 /\ reported_step' = reported_step
    /\ IF WThrottled(reported_step', last_emitted_step,
                     now' - last_emit_time >= MIN_EMIT_INTERVAL)
         THEN UNCHANGED <<last_emitted_step, last_emit_time, emitted>>
         ELSE /\ last_emitted_step' = reported_step'
              /\ last_emit_time' = now'
              /\ emitted' = Append(emitted, [step |-> reported_step', at |-> now'])
    /\ UNCHANGED nonThrottleVars

InitThrottle == JobsIdle /\ QueueIdle /\ ExtrasIdle

NextThrottle ==
    \E advance \in BOOLEAN, delay \in Delays : ThrottleReport(advance, delay)

SpecThrottle == InitThrottle /\ [][NextThrottle]_vars

\* ================================================== specification SpecEmit
\* emit_progress of execute_training_job on its own, applied to the progress
\* reports of a training plugin (TrainingProgress.current_step and
\* .sample_path / .preview_path; path 0 stands for None)
SamplePaths == 0 .. MaxPaths

\* reports handed to the callback so far: those emitted and those still queued
ReportsMade ==
    Len(SelectSeq(busHistory, LAMBDA e : e.type = "progress")) + Len(tasks)

\* the plugin calls progress_callback(progress); on_progress is the sync
\* wrapper: asyncio.create_task(emit_progress(progress))
EOnProgress(step, path) ==
    /\ epc = "sleep"
    /\ ReportsMade < MaxReports
    /\ tasks' = Append(tasks, [step |-> step, sample_path |-> path])
    /\ UNCHANGED <<nonJobVars, subVars, cfgVars, storeVars, apiVars, workerVars, epc,
                   estep, lastSamplePath, pluginVars, sseVars, histVars>>

\* a training job in single-process mode whose plugin is running
InitEmit ==
    /\ useRedis = FALSE
    /\ jobType = "training"
    /\ pluginKind = "mock"
    /\ rec = [NewJob EXCEPT !.status = "running"]
    /\ msg = "none"
    /\ progressStream = <<>>
    /\ busHistory = <<>>
    /\ jobProgress = <<>>
    /\ apiPc = "submitted"
    /\ cancelPc = "idle"
    /\ cancelJob = NoJob
    /\ cancelsDone = 0
    /\ wphase = "idle"
    /\ wop = "running"
    /\ wjob = NoJob
    /\ wstep = 0
    /\ wLastEmitted = -1
    /\ wRepeats = 0
    /\ epc = "sleep"
    /\ estep = 0
    /\ tasks = <<>>
    /\ lastSamplePath = 0
    /\ pluginRunning = TRUE
    /\ pluginCancelled = FALSE
    /\ ssePc = "closed"
    /\ sseCursor = 0
    /\ sseFrames = <<>>
    /\ acceptedCancels = 0
    /\ cancelledRunning = FALSE
    /\ cancelledQueued = FALSE
    /\ tickAfterCancel = FALSE
    /\ errorSeen = FALSE
    /\ SubsIdle
    /\ QueueIdle
    /\ ExtrasIdle

NextEmit ==
    \/ \E step \in 1 .. MaxSteps, path \in SamplePaths : EOnProgress(step, path)
    \/ ERunTask

SpecEmit == InitEmit /\ [][NextEmit]_vars

\* ================================================= specification SpecOrder
\* the same callback and tasks, the reports with or without one sample path
ReportedPaths == {0, 1}

NextOrder ==
    \/ \E step \in 1 .. MaxSteps, path \in ReportedPaths : EOnProgress(step, path)
    \/ ERunTask

SpecOrder == InitEmit /\ [][NextOrder]_vars

\* ================================================ specification SpecParser
\* the step numbers the subprocess's output and the sample file names carry
ParsedSteps == 0 .. MaxParsedStep

\* a step counter that follows every parsed step
AnyStep(new_step, step) == TRUE

\* parse_and_emit_progress: `new_step >= current_step` ("never go backwards")
ForwardProgress(new_step, step) == new_step >= step

\* parse_and_emit_progress(line) for a line in which one of the step patterns
\* matches with step number new_step (a line without a match changes nothing):
\* `if new_step is not None and new_step >= current_step: current_step = new_step`
ParseAndEmitProgress(new_step) ==
    /\ Len(callbackSteps) < MaxReports
    /\ current_step' = IF ForwardProgress(new_step, current_step)
                         THEN new_step ELSE current_step
    /\ regressions' = IF new_step < current_step /\ regressions < 1
                        THEN regressions + 1 ELSE regressions
    /\ UNCHANGED <<nonParserVars, callbackSteps>>

\* check_samples_for_progress: the step in the latest sample's file name;
\* `if step > current_step: current_step = step`
CheckSamplesForProgress(step) ==
    /\ Len(callbackSteps) < MaxReports
    /\ step # current_step
    /\ current_step' = IF step > current_step THEN step ELSE current_step
    /\ regressions' = IF step < current_step /\ regressions < 1
                        THEN regressions + 1 ELSE regressions
    /\ UNCHANGED <<nonParserVars, callbackSteps>>

\* the end of a round of the read loop: `if progress_callback and
\* current_step > 0:` the callback gets TrainingProgress(current_step=...)
EmitProgressCallback ==
    /\ current_step > 0
    /\ Len(callbackSteps) < MaxReports
    /\ callbackSteps' = Append(callbackSteps, current_step)
    /\ UNCHANGED <<nonParserVars, current_step, regressions>>

InitParser == JobsIdle /\ QueueIdle /\ ExtrasIdle

NextParser ==
    \/ \E new_step \in ParsedSteps : ParseAndEmitProgress(new_step)
    \/ \E step \in ParsedSteps : CheckSamplesForProgress(step)
    \/ EmitProgressCallback

SpecParser == InitParser /\ [][NextParser]_vars

\* ================================================ specification SpecSubmit
\* config keys a client may set in POST /api/training
ConfigKeys == {"steps", "lora_rank", "gradient_accumulation", "network_alpha"}

\* get_capabilities()["parameters"]: the parameters marked wired: False, with
\* their reason (mock plugin)
UnwiredReason ==
    [gradient_accumulation |-> "Not implemented in mock plugin",
     network_alpha |-> "Planned for Phase 2"]

Unwired == DOMAIN UnwiredReason

\* start_training of request r, whose body sets the config keys `keys`:
\*   is_capability_supported("training", method), else 400;
\*   the character exists, else 404; it has training images, else 400;
\*   then the job is built from request.config, saved, and enqueued or
\*   scheduled; the response is 201.
\* The handler does not call validate_training_config (only generate_images
\* calls its validator), and TrainingConfig has no field for a key such as
\* gradient_accumulation: pydantic drops it from request.config.
StartTraining(r, keys, methodSupported, characterExists, hasImages) ==
    /\ response[r] = NoResponse
    /\ sentKeys' = [sentKeys EXCEPT ![r] = keys]
    /\ passesChecks' = [passesChecks EXCEPT ![r] =
          methodSupported /\ characterExists /\ hasImages]
    /\ IF ~methodSupported
         THEN /\ response' = [response EXCEPT ![r] =
                    [status_code |-> 400, detail |-> "Training method is not supported"]]
              /\ UNCHANGED <<jobStore, dispatched>>
         ELSE IF ~characterExists
           THEN /\ response' = [response EXCEPT ![r] =
                      [status_code |-> 404, detail |-> "Character not found"]]
                /\ UNCHANGED <<jobStore, dispatched>>
           ELSE IF ~hasImages
             THEN /\ response' = [response EXCEPT ![r] =
                        [status_code |-> 400,
                         detail |-> "No training images uploaded for this character"]]
                  /\ UNCHANGED <<jobStore, dispatched>>
             ELSE \* TrainingJob(config=request.config, ...); _save_job(job)
                  /\ jobStore' = jobStore \cup {r}
                  /\ dispatched' = dispatched \cup {r}
                  /\ response' = [response EXCEPT ![r] =
                        [status_code |-> 201, detail |-> ""]]
    /\ UNCHANGED nonSubmitVars

InitSubmit == JobsIdle /\ QueueIdle /\ ExtrasIdle

NextSubmit ==
    \E r \in Requests, keys \in SUBSET ConfigKeys,
       methodSupported \in BOOLEAN, characterExists \in BOOLEAN, hasImages \in BOOLEAN :
        StartTraining(r, keys, methodSupported, characterExists, hasImages)

SpecSubmit == InitSubmit /\ [][NextSubmit]_vars

\* ================================================== specification SpecRate
\* The rate_limit decorator in front of the submission endpoints. Each run
\* sends its requests to one endpoint; the limiter's key is
\* "<handler name>:<client ip>", so the endpoints do not share a bucket.
MaxCalls == 21
MaxClock == 60

RATE_LIMIT_UPLOAD == 30
RATE_LIMIT_TRAINING == 5
RATE_LIMIT_GENERATION == 20
WINDOW_SECONDS == 60

Endpoints == {"upload_training_images", "upload_lora", "generate_images", "start_training"}

\* the handlers that carry @rate_limit(...), with the decorator's max_requests;
\* start_training carries no decorator and RATE_LIMIT_TRAINING has no user
Decorated ==
    [upload_training_images |-> RATE_LIMIT_UPLOAD,
     upload_lora            |-> RATE_LIMIT_UPLOAD,
     generate_images        |-> RATE_LIMIT_GENERATION]

\* the handlers with a starlette Request among their parameters; the wrapper
\* finds no Request in upload_lora's arguments and skips the limiter
HasRequestParameter == {"upload_training_images", "generate_images"}

\* the entries of one key that are kept: ts > window_start
InWindow(stamps, now_) == SelectSeq(stamps, LAMBDA ts : ts > now_ - WINDOW_SECONDS)

\* RateLimiter.is_allowed: the first component of its result
IsAllowed(stamps, max_requests, now_) == Len(InWindow(stamps, now_)) < max_requests

\* one request from client c goes through the wrapper
CallEndpoint(c) ==
    /\ rateCalls < MaxCalls
    /\ rateCalls' = rateCalls + 1
    /\ LET limited == endpoint \in DOMAIN Decorated /\ endpoint \in HasRequestParameter
           cleaned == InWindow(limiterRequests[c], clock)
           allowed == limited => IsAllowed(limiterRequests[c], Decorated[endpoint], clock)
       IN  /\ limiterRequests' =
                 IF ~limited THEN limiterRequests
                 ELSE [limiterRequests EXCEPT ![c] =
                          IF allowed THEN Append(cleaned, clock) ELSE cleaned]
           \* allowed: response = await func(...); else HTTPException(429)
           /\ admitted' =
                 IF allowed
                   THEN [admitted EXCEPT ![c] = Append(InWindow(@, clock), clock)]
                   ELSE admitted
    /\ UNCHANGED <<endpoint, clock>>
    /\ UNCHANGED nonRateVars

TickDelays == {30, WINDOW_SECONDS}

\* time passes
RateTick(d) ==
    /\ clock + d <= MaxClock
    /\ clock' = clock + d
    /\ UNCHANGED <<endpoint, limiterRequests, admitted, rateCalls>>
    /\ UNCHANGED nonRateVars

InitRate ==
    /\ JobsIdle /\ QueueIdle
    /\ TraceIdle /\ ThrottleIdle /\ ParserIdle /\ SubmitIdle /\ HealIdle /\ EnvIdle /\ UelrIdle /\ FaultIdle
    /\ endpoint \in Endpoints
    /\ clock = 0
    /\ limiterRequests = [c \in Clients |-> <<>>]
    /\ admitted = [c \in Clients |-> <<>>]
    /\ rateCalls = 0

NextRate ==
    \/ \E c \in Clients : CallEndpoint(c)
    \/ \E d \in TickDelays : RateTick(d)

SpecRate == InitRate /\ [][NextRate]_vars

\* ================================================== specification SpecHeal
\* The job queue of SpecQueue with one more thing that can happen to it: a
\* consumer group is destroyed (XGROUP DESTROY, or Redis coming back without
\* the group) while the workers are polling. The stream keeps its entries,
\* the group's cursor and its pending entries are gone.
MaxLosses == 1

QGroupLost(s) ==
    /\ groupLosses < MaxLosses
    /\ groupExists[s]
    /\ \A w \in Workers : qpc[w] # "start"
    /\ groupLosses' = groupLosses + 1
    /\ lostAt' = [lostAt EXCEPT ![s] = Len(deliveries[s])]
    /\ groupExists' = [groupExists EXCEPT ![s] = FALSE]
    /\ lastDelivered' = [lastDelivered EXCEPT ![s] = 0]
    /\ pending' = [pending EXCEPT ![s] = <<>>]
    /\ UNCHANGED <<streamLen, qpc, current, deliveries, lastDequeued, passedOver>>
    /\ UNCHANGED nonHealVars

InitHeal == JobsIdle /\ QueueIdle /\ ExtrasIdle

NextHeal ==
    \/ \E s \in Streams : QSubmit(s)
    \/ \E w \in Workers : QWorkerStart(w)
    \/ \E w \in Workers : QPollTraining(w)
    \/ \E w \in Workers : QPollGeneration(w)
    \/ \E w \in Workers : QProcessJob(w)
    \/ \E s \in Streams : QGroupLost(s)

SpecHeal == InitHeal /\ [][NextHeal]_vars

\* ============================================== specification SpecEnvelope
\* submit_job writes the envelope as a flat map of strings, the payload as
\* JSON text; consume_jobs reads the entry back and decodes the payload.
\* Python values are tagged pairs: <<"str", s>>, <<"int", n>>, <<"none", 0>>,
\* <<"list", items>>, <<"tuple", items>>, <<"dict", key -> value>>; JSON
\* texts are the documents they denote: <<"string", s>>, <<"number", n>>,
\* <<"null", 0>>, <<"array", items>>, <<"object", name -> document>>.
MaxEnvelopes == 1

PyKeys == {<<"str", "steps">>, <<"int", 1>>}
PyDicts(values) ==
    {<<"dict", d>> : d \in UNION {[ks -> values] : ks \in SUBSET PyKeys}}
PyValues ==
    {<<"str", "test-char">>, <<"int", 100>>, <<"none", 0>>,
     <<"list", <<<<"int", 100>>>>>>, <<"tuple", <<<<"int", 100>>>>>>,
     <<"dict", [k \in {<<"str", "steps">>} |-> <<"int", 100>>]>>}
Payloads == PyDicts(PyValues)

\* json.dumps writes a key that is not a string as its text
KeyName(k) == IF k[1] = "str" THEN k[2] ELSE ToString(k[2])

RECURSIVE Dumps(_)
\* json.dumps: tuples and lists both become arrays, keys become strings
Dumps(v) ==
    CASE v[1] = "str" -> <<"string", v[2]>>
      [] v[1] = "int" -> <<"number", v[2]>>
      [] v[1] = "none" -> <<"null", 0>>
      [] v[1] \in {"list", "tuple"} -> <<"array", [i \in DOMAIN v[2] |-> Dumps(v[2][i])]>>
      [] v[1] = "dict" ->
           <<"object",
             [n \in {KeyName(k) : k \in DOMAIN v[2]} |->
                 Dumps(v[2][CHOOSE k \in DOMAIN v[2] : KeyName(k) = n])]>>

RECURSIVE Loads(_)
\* json.loads: arrays become lists, objects become dicts with str keys
Loads(j) ==
    CASE j[1] = "string" -> <<"str", j[2]>>
      [] j[1] = "number" -> <<"int", j[2]>>
      [] j[1] = "null" -> <<"none", 0>>
      [] j[1] = "array" -> <<"list", [i \in DOMAIN j[2] |-> Loads(j[2][i])]>>
      [] j[1] = "object" ->
           <<"dict", [k \in {<<"str", n>> : n \in DOMAIN j[2]} |-> Loads(j[2][k[2]])]>>

\* submit_job: the message handed to XADD
EnvelopeMessage(job_id, job_type, payload, correlation_id) ==
    [id |-> job_id, type |-> job_type,
     correlation_id |-> EnvelopeCid(correlation_id),
     payload |-> Dumps(payload)]

EnvSubmit(job_id, job_type, payload, correlation_id) ==
    /\ Len(envStream) < MaxEnvelopes
    /\ envStream' = Append(envStream,
                           EnvelopeMessage(job_id, job_type, payload, correlation_id))
    /\ envArgs' = Append(envArgs,
          [job_id |-> job_id, job_type |-> job_type, payload |-> payload,
           correlation_id |-> correlation_id])
    /\ UNCHANGED envOut
    /\ UNCHANGED nonEnvVars

\* the entry as consume_jobs would return it without decoding the payload
ConsumedRaw(data) == data

\* consume_jobs: if "payload" in data: data["payload"] = json.loads(...)
ConsumedData(data) == [data EXCEPT !.payload = Loads(@)]

\* XREADGROUP ">" returns the first entry not delivered yet
EnvConsume ==
    /\ Len(envOut) < Len(envStream)
    /\ envOut' = Append(envOut, ConsumedData(envStream[Len(envOut) + 1]))
    /\ UNCHANGED <<envStream, envArgs>>
    /\ UNCHANGED nonEnvVars

JobIds == {"test-job-003"}

InitEnvelope == JobsIdle /\ QueueIdle /\ ExtrasIdle

NextEnvelope ==
    \/ \E job_id \in JobIds, job_type \in {"training", "generation"},
          payload \in Payloads, correlation_id \in {NoCid, "test-corr-001"} :
            EnvSubmit(job_id, job_type, payload, correlation_id)
    \/ EnvConsume

SpecEnvelope == InitEnvelope /\ [][NextEnvelope]_vars

\* ================================================== specification SpecUelr
\* The UELR routes over the files of UELR_LOG_DIR. The handlers are async
\* functions without an await in them, so each runs as one step. A header is
\* the interaction's model_dump without its steps; None is written -1.
MAX_INTERACTIONS == 1000
MaxStoredSteps == 2
MaxUelrClock == 2
MaxUelrOps == 5

InteractionIds == {"i1", "i2"}

\* UELRInteraction(...) as create_interaction builds it
NewHeader(now_) ==
    [started_at |-> now_, ended_at |-> -1, duration_ms |-> -1, status |-> "pending",
     step_count |-> 0, error_count |-> 0]

\* _load_interaction: None without a file, else the header with the steps
Exists(id) == id \in DOMAIN files
LoadInteraction(id) == [header |-> files[id].header, steps |-> files[id].steps]

\* the entry with the smallest started_at
Oldest(idx) ==
    CHOOSE i \in DOMAIN idx : \A j \in DOMAIN idx : idx[j].started_at >= idx[i].started_at

RECURSIVE NewestEntries(_)
\* sorted(index.values(), key=started_at, reverse=True)[:MAX_INTERACTIONS]
NewestEntries(idx) ==
    IF Cardinality(DOMAIN idx) <= MAX_INTERACTIONS THEN idx
    ELSE NewestEntries([i \in DOMAIN idx \ {Oldest(idx)} |-> idx[i]])

\* _update_index: the index after the entry of id is written and the oldest
\* entries are dropped
UpdatedIndex(idx, id, header) ==
    NewestEntries([i \in DOMAIN idx \cup {id} |-> IF i = id THEN header ELSE idx[i]])

\* _update_index: `removed` is computed after `index` was replaced by the
\* kept entries: set(index.keys()) minus the ids of the kept entries
Removed(idx, id, header) ==
    DOMAIN UpdatedIndex(idx, id, header) \ DOMAIN UpdatedIndex(idx, id, header)

\* a rewrite that would forget the step lines
NoSteps(fs, id) == <<>>

\* _save_interaction: the step lines read back from the existing file
ExistingSteps(fs, id) == IF id \in DOMAIN fs THEN fs[id].steps ELSE <<>>

\* _save_interaction on the files fs: the header line is rewritten, the step
\* lines are kept, then _update_index unlinks the files of `removed`
SavedFiles(fs, idx, id, header) ==
    LET written == [i \in DOMAIN fs \cup {id} |->
                      IF i = id THEN [header |-> header, steps |-> ExistingSteps(fs, id)]
                      ELSE fs[i]]
    IN  [i \in DOMAIN written \ Removed(idx, id, header) |-> written[i]]

\* the history follows the files
Following(acc, fs) == [i \in DOMAIN fs |-> IF i \in DOMAIN acc THEN acc[i] ELSE <<>>]

\* a create on an id that is stored would overwrite it
NeverStored(id) == FALSE

\* create_interaction: `existing = _load_interaction(...)`, `if existing`
Stored(id) == Exists(id)

CreateInteraction(id) ==
    /\ uelrOps < MaxUelrOps
    /\ uelrOps' = uelrOps + 1
    /\ IF Stored(id)
         THEN /\ uelrResponse' = [status_code |-> 201, interaction_id |-> id,
                                  interaction |-> LoadInteraction(id)]
              /\ UNCHANGED <<files, index, acceptedSteps>>
         ELSE /\ files' = SavedFiles(files, index, id, NewHeader(utcnow))
              /\ index' = UpdatedIndex(index, id, NewHeader(utcnow))
              /\ acceptedSteps' = Following((id :> <<>>) @@ acceptedSteps, files')
              /\ uelrResponse' =
                    [status_code |-> 201, interaction_id |-> id,
                     interaction |-> [header |-> NewHeader(utcnow), steps |-> <<>>]]
    /\ UNCHANGED utcnow
    /\ UNCHANGED nonUelrVars

\* the steps of a request body: "invalid" is a step UELRStep(**step_data)
\* rejects (a field is missing or has a wrong value)
StepKinds == {"success", "error", "invalid"}
Batches ==
    {<<>>} \cup {<<k>> : k \in StepKinds} \cup {<<"invalid", "error">>, <<"error", "success">>}

\* the steps of a batch that pass validation, numbered after the stored ones
RECURSIVE ValidSteps(_, _)
ValidSteps(batch, n) ==
    IF batch = <<>> THEN <<>>
    ELSE IF Head(batch) = "invalid" THEN ValidSteps(Tail(batch), n)
    ELSE <<[step_id |-> n + 1, status |-> Head(batch)]>> \o ValidSteps(Tail(batch), n + 1)

\* counting every step as an error
AllOf(steps) == Len(steps)

\* append_steps: error_count += 1 for each step with status ERROR
ErrorsOf(steps) == Len(SelectSeq(steps, LAMBDA s : s.status = "error"))

AppendSteps(id, batch) ==
    /\ uelrOps < MaxUelrOps
    /\ uelrOps' = uelrOps + 1
    /\ uelrResponse' = NoUelrResponse
    /\ IF ~Exists(id)
         THEN UNCHANGED <<files, index, acceptedSteps>>           \* 404
         ELSE LET interaction == LoadInteraction(id)
                  steps == ValidSteps(batch, Len(acceptedSteps[id]))
                  \* _append_steps: the step lines are added to the file
                  appended == [files EXCEPT ![id].steps = @ \o steps]
                  header == [interaction.header EXCEPT
                                !.step_count = @ + Len(steps),
                                !.error_count = @ + ErrorsOf(steps)]
              IN  IF steps = <<>>
                    THEN UNCHANGED <<files, index, acceptedSteps>>
                    ELSE /\ Len(files[id].steps) + Len(steps) <= MaxStoredSteps
                         /\ files' = SavedFiles(appended, index, id, header)
                         /\ index' = UpdatedIndex(index, id, header)
                         /\ acceptedSteps' = Following([acceptedSteps EXCEPT ![id] = @ \o steps], files')
    /\ UNCHANGED utcnow
    /\ UNCHANGED nonUelrVars

CompleteInteraction(id, status) ==
    /\ uelrOps < MaxUelrOps
    /\ uelrOps' = uelrOps + 1
    /\ uelrResponse' = NoUelrResponse
    /\ IF ~Exists(id)
         THEN UNCHANGED <<files, index, acceptedSteps>>           \* 404
         ELSE LET interaction == LoadInteraction(id)
                  header == [interaction.header EXCEPT
                                !.status = status,
                                !.ended_at = utcnow,
                                !.duration_ms = utcnow - interaction.header.started_at]
              IN  /\ files' = SavedFiles(files, index, id, header)
                  /\ index' = UpdatedIndex(index, id, header)
                  /\ acceptedSteps' = Following(acceptedSteps, files')
    /\ UNCHANGED utcnow
    /\ UNCHANGED nonUelrVars

GetInteraction(id) ==
    /\ uelrOps < MaxUelrOps
    /\ uelrOps' = uelrOps + 1
    /\ uelrResponse' =
          IF Exists(id)
            THEN [status_code |-> 200, interaction_id |-> id,
                  interaction |-> LoadInteraction(id)]
            ELSE [status_code |-> 404]
    /\ UNCHANGED <<utcnow, files, index, acceptedSteps>>
    /\ UNCHANGED nonUelrVars

\* delete_interaction: the file is unlinked and its index line dropped
DeleteInteraction(id) ==
    /\ uelrOps < MaxUelrOps
    /\ uelrOps' = uelrOps + 1
    /\ uelrResponse' = NoUelrResponse
    /\ IF ~Exists(id)
         THEN UNCHANGED <<files, index, acceptedSteps>>           \* 404
         ELSE /\ files' = [i \in DOMAIN files \ {id} |-> files[i]]
              /\ index' = [i \in DOMAIN index \ {id} |-> index[i]]
              /\ acceptedSteps' = Following(acceptedSteps, files')
    /\ UNCHANGED utcnow
    /\ UNCHANGED nonUelrVars

\* cleanup_old_interactions(retention_days): the index entries started before
\* the cutoff are dropped and their files unlinked
CleanupOldInteractions(retention_days) ==
    /\ uelrOps < MaxUelrOps
    /\ uelrOps' = uelrOps + 1
    /\ uelrResponse' = NoUelrResponse
    /\ LET cutoff == utcnow - retention_days
           keep == {i \in DOMAIN index : index[i].started_at >= cutoff}
       IN  /\ index' = [i \in keep |-> index[i]]
           /\ files' = [i \in DOMAIN files \ (DOMAIN index \ keep) |-> files[i]]
           /\ acceptedSteps' = Following(acceptedSteps, files')
    /\ UNCHANGED utcnow
    /\ UNCHANGED nonUelrVars

\* time passes between two requests
UelrTick ==
    /\ utcnow < MaxUelrClock
    /\ utcnow' = utcnow + 1
    /\ UNCHANGED <<files, index, acceptedSteps, uelrResponse, uelrOps>>
    /\ UNCHANGED nonUelrVars

RetentionDays == {0, 1}
CompletionStatuses == {"success", "error"}

InitUelr == JobsIdle /\ QueueIdle /\ ExtrasIdle

NextUelr ==
    \/ \E id \in InteractionIds : CreateInteraction(id)
    \/ \E id \in InteractionIds, batch \in Batches : AppendSteps(id, batch)
    \/ \E id \in InteractionIds, status \in CompletionStatuses :
          CompleteInteraction(id, status)
    \/ \E id \in InteractionIds : GetInteraction(id)
    \/ \E id \in InteractionIds : DeleteInteraction(id)
    \/ \E retention_days \in RetentionDays : CleanupOldInteractions(retention_days)
    \/ UelrTick

SpecUelr == InitUelr /\ [][NextUelr]_vars

\* ============================================= specification SpecRetention
\* The same routes on a store that already holds MAX_INTERACTIONS
\* interactions, created one tick apart before time 0 and left without
\* steps; the run serves three more requests.
OldId(k) == "old-" \o ToString(k)
OldIds == {OldId(k) : k \in 1 .. MAX_INTERACTIONS}
OldStartedAt == [id \in OldIds |->
                   (CHOOSE k \in 1 .. MAX_INTERACTIONS : OldId(k) = id) - MAX_INTERACTIONS - 1]

InitRetention ==
    /\ JobsIdle /\ QueueIdle
    /\ TraceIdle /\ ThrottleIdle /\ ParserIdle /\ SubmitIdle /\ RateIdle /\ HealIdle /\ EnvIdle /\ FaultIdle
    /\ utcnow = 0
    /\ files = [id \in OldIds |-> [header |-> NewHeader(OldStartedAt[id]), steps |-> <<>>]]
    /\ index = [id \in OldIds |-> NewHeader(OldStartedAt[id])]
    /\ acceptedSteps = [id \in OldIds |-> <<>>]
    /\ uelrResponse = NoUelrResponse
    /\ uelrOps = MaxUelrOps - 3

\* the ids of the requests: two new interactions and the oldest stored one
RetentionIds == InteractionIds \cup {OldId(1)}

NextRetention ==
    \/ \E id \in RetentionIds : CreateInteraction(id)
    \/ \E id \in RetentionIds, batch \in Batches : AppendSteps(id, batch)
    \/ \E id \in RetentionIds, status \in CompletionStatuses :
          CompleteInteraction(id, status)
    \/ \E id \in RetentionIds : GetInteraction(id)
    \/ \E id \in RetentionIds : DeleteInteraction(id)
    \/ \E retention_days \in RetentionDays : CleanupOldInteractions(retention_days)
    \/ UelrTick

SpecRetention == InitRetention /\ [][NextRetention]_vars

\* ================================================= specification SpecFaults
\* The job life cycle of SpecJobs with store calls that can raise (a Redis
\* error in update_job_status or publish_progress) while the worker marks the
\* job running, completed or failed. Inside the try of process_job the
\* exception reaches `except Exception`, which calls _mark_job_failed; raised
\* by that call, it leaves process_job through the `finally` block, which
\* acknowledges the message.
WStoreFails ==
    /\ useRedis
    /\ wphase \in {"read", "write", "publish"}
    /\ wop \in {"running", "completed", "failed"}
    /\ IF inExcept
         THEN /\ wphase' = "ack"
              /\ UNCHANGED <<wop, inExcept>>
         ELSE /\ wop' = "failed"
              /\ wphase' = "read"
              /\ inExcept' = TRUE
    /\ pluginRunning' = pluginRunning
    /\ errorSeen' = TRUE
    /\ UNCHANGED <<queueVars, traceVars, throttleVars, parserVars, submitVars, rateVars,
                   healVars, envVars, uelrVars>>
    /\ UNCHANGED <<subVars, cfgVars, storeVars, apiVars, wjob, wstep, wLastEmitted,
                   wRepeats, execVars, pluginCancelled, sseVars, cancelHist>>

NextFaults == NextJobs \/ WStoreFails

SpecFaults == InitJobs /\ [][NextFaults]_vars

\* ================================================================ claims
\* the events published for the job: the Redis progress stream in queue mode;
\* in single-process mode the in-process event bus for a training job and the
\* recorded progress events for a generation job (execute_generation_job
\* publishes nowhere else)
Events ==
    IF useRedis THEN progressStream
    ELSE IF jobType = "training" THEN busHistory ELSE jobProgress

TerminalEvents(evs) ==
    SelectSeq(evs, LAMBDA e : e.type = "progress" /\ e.status \in TERMINAL)

RunEvents(evs) == SelectSeq(evs, LAMBDA e : e.by = "run")

CancelledEvents(evs) == SelectSeq(evs, LAMBDA e : e.status = "cancelled")

\* the run of the job is over and no cancel handler is in flight
RunOver ==
    /\ cancelPc = "idle"
    /\ IF useRedis THEN wphase = "done" ELSE epc = "done" /\ tasks = <<>>

CompleteFrames == SelectSeq(sseFrames, LAMBDA f : f.event = "complete")

\* C1: once the job record's status is completed, failed or cancelled, no
\* step of the API, the worker or the executor changes that status.
C1_TerminalStatusFinal ==
    [][rec.status \in TERMINAL => rec'.status = rec.status]_vars

\* C2: at most one terminal progress event is ever published for the job, and
\* once the run is over and the record is terminal exactly one was published.
C2_ExactlyOneTerminalEvent ==
    /\ Len(TerminalEvents(Events)) <= 1
    /\ (RunOver /\ rec.status \in TERMINAL) => Len(TerminalEvents(Events)) = 1

\* C3: after a terminal progress event was published for the job, the run
\* publishes no further event (progress or artifact) for it.
C3_NoEventAfterTerminal ==
    [][TerminalEvents(Events) # <<>> => RunEvents(Events') = RunEvents(Events)]_vars

\* C4: a step of the cancel handler taken while the record's current status is
\* terminal leaves the record unchanged and accepts nothing.
C4_CancelRejectedWhenTerminal ==
    [][((cancelPc' # cancelPc \/ cancelsDone' # cancelsDone)
          /\ rec.status \in TERMINAL)
        => (rec' = rec /\ acceptedCancels' = acceptedCancels)]_vars

\* C5: for a training job cancelled while it ran, the SSE progress stream
\* delivers only `complete` frames whose status is cancelled, never more than
\* one, and exactly one by the time the stream has ended.
C5_OneCancelledCompleteFrame ==
    (jobType = "training" /\ cancelledRunning) =>
        /\ \A i \in DOMAIN CompleteFrames : CompleteFrames[i].status = "cancelled"
        /\ Len(CompleteFrames) <= 1
        /\ ssePc = "ended" => Len(CompleteFrames) = 1

\* C6: once the run has made a progress tick after a cancel of the running job
\* was accepted, plugin.cancel() has been invoked (the plugin's flag is set).
C6_ExecutorCancelsPlugin == tickAfterCancel => pluginCancelled

\* C7: when no cancel handler is in flight, every accepted cancel request has
\* published one cancelled event for the job, in queue mode and in
\* single-process mode.
C7_AcceptedCancelPublished ==
    cancelPc = "idle" => Len(CancelledEvents(Events)) = acceptedCancels

\* a message held by a worker that died before acknowledging it
HeldByCrashed(s, i) ==
    \E w \in Workers : qpc[w] = "crashed" /\ current[w] = <<s, i>>

\* consume handed the message out more than once
Redelivered(s, i) ==
    Cardinality({k \in DOMAIN deliveries[s] : deliveries[s][k] = i}) >= 2

\* C8: a message whose worker crashed before acknowledging it is subsequently
\* delivered to another worker of the group.
C8_CrashedMessageRedelivered ==
    \A s \in Streams : \A i \in 1 .. MaxMsgs :
        HeldByCrashed(s, i) ~> Redelivered(s, i)

\* C9: consume never returns a message it already returned to a consumer of
\* the group: the ids handed out on a stream are pairwise distinct.
C9_ConsumeNeverRedelivers ==
    \A s \in Streams :
        \A j, k \in DOMAIN deliveries[s] :
            j # k => deliveries[s][j] # deliveries[s][k]

\* C9 witness: several messages of one stream were handed out, to two
\* different workers, and a message was submitted after the first delivery
C9_Witness ==
    \E s \in Streams :
        /\ Len(deliveries[s]) >= 2
        /\ \E j, k \in DOMAIN pending[s] : pending[s][j][2] # pending[s][k][2]

\* C10: no worker takes two training messages in a row while a generation
\* message waits undelivered, without polling the generation stream in between.
C10_NeitherStreamStarved == \A w \in Workers : passedOver[w] <= 1

\* both job streams hold a message the group has not delivered yet
BothWaiting ==
    /\ groupExists[STREAM_TRAINING] /\ NextNew(STREAM_TRAINING) # 0
    /\ groupExists[STREAM_GENERATION] /\ NextNew(STREAM_GENERATION) # 0

\* C11: when both streams hold undelivered messages, a worker's dequeue takes
\* its message from the other stream than that worker's previous dequeue.
C11_DequeuesAlternate ==
    [][\A w \in Workers :
         (/\ BothWaiting
          /\ lastDequeued[w] # "none"
          /\ qpc[w] # "processing" /\ qpc'[w] = "processing")
            => current'[w][1] # lastDequeued[w]]_vars

\* the progress events among the published events (artifact events carry no
\* progress_pct)
ProgressEvents(evs) == SelectSeq(evs, LAMBDA e : e.type = "progress")

\* C12: the progress_pct values of the job's successively published progress
\* events never decrease.
C12_ProgressPctMonotonic ==
    LET evs == ProgressEvents(Events)
    IN \A i, j \in DOMAIN evs : i < j => evs[i].progress <= evs[j].progress

\* C13: a record with status completed has progress 100, and no step takes the
\* progress of a completed record away from 100.
C13_CompletedProgress100 ==
    [][/\ rec.status = "completed" => rec.progress = 100
       /\ rec.status = "completed" => rec'.progress = 100]_vars

FailedEvents(evs) ==
    SelectSeq(evs, LAMBDA e : e.type = "progress" /\ e.status = "failed")

\* C14: once the run of a job that hit an error is over, the job record has
\* status failed and a failed terminal progress event was published for it.
C14_ErrorEndsFailed ==
    (errorSeen /\ RunOver) =>
        /\ rec.status = "failed"
        /\ FailedEvents(Events) # <<>>

\* C15: whenever the job has been enqueued or scheduled for execution, or the
\* submission's response has returned, the job record is stored and readable.
C15_RecordStoredBeforeEnqueue ==
    (msg # "none" \/ epc # "none" \/ apiPc = "submitted") => rec.status # "absent"

\* C15 witness: the response has returned with the job enqueued (queue mode) or
\* scheduled (single-process mode) and not yet taken up, the record readable
C15_Witness ==
    /\ apiPc = "submitted"
    /\ msg = "queued" \/ epc = "scheduled"
    /\ rec = NewJob

\* the record is not older than the event: it carries at least the event's
\* progress
Reflects(r, e) == r.progress >= e.progress

\* C16: when a progress event is published, the job record already reflects it:
\* a reader who sees the event does not read an older record state.
C16_RecordWriteBeforeEvent ==
    [][LET before == ProgressEvents(Events)
           after == ProgressEvents(Events)'
       IN \A i \in (Len(before) + 1) .. Len(after) : Reflects(rec', after[i])]_vars

\* what was published for the job where subscribers listen: the Redis progress
\* stream in queue mode, the in-process event bus in single-process mode
Published == IF useRedis THEN progressStream ELSE busHistory

SeenIds(s) == {subSeen[s][i][1] : i \in DOMAIN subSeen[s]}

\* C17: each subscriber is handed the job's events in the order in which they
\* were published: the ids it has seen increase, and each event is the one
\* published under that id.
C17_SubscriberSeesPublishOrder ==
    \A s \in Subs :
        /\ \A i, j \in DOMAIN subSeen[s] :
               i < j => subSeen[s][i][1] < subSeen[s][j][1]
        /\ \A i \in DOMAIN subSeen[s] :
               subSeen[s][i][2] = Published[subSeen[s][i][1]]

\* C17 witness: on the in-process bus two subscribers read concurrently, one
\* has been handed two events and still has one waiting, the other is behind
C17_Witness ==
    /\ ~useRedis
    /\ \E s, u \in Subs :
         /\ s # u
         /\ Len(subSeen[s]) >= 2 /\ subQueue[s] # <<>>
         /\ subPc[u] = "subscribed" /\ Len(subSeen[u]) < Len(subSeen[s])

\* C18: a subscription that has ended has handed its subscriber every terminal
\* event that was published while the subscriber was subscribed.
C18_TerminalEventReceived ==
    \A s \in Subs : subPc[s] = "ended" => owed[s] \subseteq SeenIds(s)

\* C19: an event with a terminal status is the last one its subscription
\* yields, and the subscription has ended with it.
C19_SubscriptionEndsOnTerminal ==
    \A s \in Subs : \A i \in DOMAIN subSeen[s] :
        subSeen[s][i][2].status \in TERMINAL =>
            /\ i = Len(subSeen[s])
            /\ subPc[s] = "ended"

\* C19 witness: a subscription ended with a terminal event after it had
\* yielded others, and an event published after that one reached it no more
C19_Witness ==
    \E s \in Subs :
        /\ subPc[s] = "ended"
        /\ Len(subSeen[s]) >= 2
        /\ Len(Published) > subSeen[s][Len(subSeen[s])][1]

\* C20: a client connected to the job's event stream is handed the job's
\* events from the oldest one in the history on, those published before it
\* connected included.
C20_HistoryReplayedOnConnect ==
    \A s \in Subs : subSeen[s] # <<>> => subSeen[s][1][1] = 1

\* the history holds at most `cap` events, and they are the last ones published,
\* in publish order
RetainsLast(hist, cap) ==
    /\ Len(hist) <= cap
    /\ \A i \in DOMAIN hist : hist[i].step = NextNumber(hist) - 1 - Len(hist) + i

\* C21: after any sequence of publishes the retained progress history of the
\* job holds at most 100 events, the most recently published ones in publish
\* order (in-process history and Redis progress stream alike).
C21_HistoryHoldsLast100 ==
    /\ RetainsLast(busHistory, BUS_MAX_HISTORY)
    /\ RetainsLast(progressStream, PROGRESS_MAXLEN)

\* C22: while a worker processes a job, the correlation ID in the worker's
\* context equals the correlation ID of the HTTP request that submitted the job.
C22_WorkerCarriesRequestCid ==
    \A w \in Workers : workerJob[w] # 0 => workerCtx[w] = apiCtx[workerJob[w]]

\* C22 witness: two workers process the jobs of two requests at the same time
\* under different correlation IDs, one of them generated by the middleware
C22_Witness ==
    \E w, v \in Workers :
        /\ workerJob[w] # 0 /\ workerJob[v] # 0
        /\ workerCtx[w] # workerCtx[v]
        /\ workerCtx[w] = "req-" \o ToString(workerJob[w])

\* C23: for every progress report of a new step the plugin makes, the body of
\* the progress callback runs: the worker goes on to the record update and the
\* progress publish of that step, the executor hands the report to
\* emit_progress.
C23_CallbackBodyRuns ==
    [][/\ (wphase = "train" /\ wstep' = wstep + 1)
            => (wop' = "progress" /\ wphase' \in {"read", "publish"})
       /\ (epc = "sleep" /\ estep' = estep + 1 /\ jobType = "training")
            => tasks' = Append(tasks, Report(estep'))]_vars

\* the stage machine of a training run, in order
StageOrder ==
    <<"queued", "initializing", "preparing_dataset", "training", "exporting",
      "completed">>

StageRank(stage) == CHOOSE i \in DOMAIN StageOrder : StageOrder[i] = stage

\* the progress events that carry a stage of the stage machine
StagedEvents(evs) ==
    SelectSeq(evs, LAMBDA e : /\ e.type = "progress"
                              /\ \E i \in DOMAIN StageOrder : StageOrder[i] = e.stage)

\* C24: the stages carried by the successive progress events of the job never
\* move backwards in the order queued, initializing, preparing_dataset,
\* training, exporting, completed.
C24_StageNeverMovesBack ==
    LET evs == StagedEvents(Events)
    IN \A i, j \in DOMAIN evs :
           i < j => StageRank(evs[i].stage) <= StageRank(evs[j].stage)

ArtifactEvents(evs) == SelectSeq(evs, LAMBDA e : e.type = "artifact")

C27_StepCounterMonotonic ==
    /\ \A i, j \in DOMAIN callbackSteps : i < j => callbackSteps[i] <= callbackSteps[j]
    /\ callbackSteps # <<>> => callbackSteps[Len(callbackSteps)] <= current_step

\* C27 witness: the output carried a step below the counter, and the callback
\* was called before and after the counter moved on
C27_Witness ==
    /\ regressions >= 1
    /\ Len(callbackSteps) >= 3
    /\ callbackSteps[1] < callbackSteps[Len(callbackSteps)]

\* C28: a training submission (for a supported method and a character with
\* images) whose config sets a parameter the plugin's capability schema marks
\* wired:false is answered with a validation error that carries the plugin's
\* reason for that parameter; no job record is created and nothing is
\* enqueued or scheduled for it.
C28_UnwiredParameterRejected ==
    \A r \in Requests :
        (response[r] # NoResponse /\ passesChecks[r] /\ sentKeys[r] \cap Unwired # {}) =>
            /\ response[r].status_code = 400
            /\ \E k \in sentKeys[r] \cap Unwired : response[r].detail = UnwiredReason[k]
            /\ r \notin jobStore
            /\ r \notin dispatched

\* the bucket size stated for each submission route
BucketSize ==
    [upload_training_images |-> RATE_LIMIT_UPLOAD,
     upload_lora            |-> RATE_LIMIT_UPLOAD,
     generate_images        |-> RATE_LIMIT_GENERATION,
     start_training         |-> RATE_LIMIT_TRAINING]

\* C29: for the upload, generation and training submission routes, at most
\* the route's bucket size (30, 20, 5) requests of one client address are
\* admitted within any 60-second window. admitted[c] holds the admissions of
\* the window that ends at the latest one.
C29_AdmissionsWithinBucket ==
    \A c \in Clients : Len(admitted[c]) <= BucketSize[endpoint]

\* worker w calls consume_jobs on stream s in this step
Polls(w, s) ==
    /\ \/ s = STREAM_TRAINING /\ qpc[w] = "poll_training"
       \/ s = STREAM_GENERATION /\ qpc[w] = "poll_generation"
    /\ qpc'[w] # qpc[w]

\* C30: consume on a stream whose consumer group does not exist does not
\* fail: it creates the group and returns an empty list (the worker goes on
\* polling with no message), and a later consume delivers the stream's
\* messages normally: the k-th consume after the loss returns the stream's
\* k-th entry.
C30_ConsumeHealsMissingGroup ==
    [][\A w \in Workers, s \in Streams :
         /\ (Polls(w, s) /\ ~groupExists[s]) =>
               /\ groupExists'[s]
               /\ current'[w] = NoMessage
               /\ qpc'[w] \in {"poll_training", "poll_generation"}
               /\ deliveries' = deliveries
         /\ (/\ Polls(w, s) /\ groupExists[s] /\ lostAt[s] >= 0
             /\ Len(deliveries[s]) - lostAt[s] < streamLen[s]) =>
               /\ qpc'[w] = "processing"
               /\ current'[w] = <<s, Len(deliveries[s]) - lostAt[s] + 1>>]_vars

\* a group was destroyed after it had delivered the stream's first entry, a
\* consume created it again, and a later consume delivered that entry
C30_Witness ==
    \E s \in Streams :
        /\ lostAt[s] >= 1
        /\ groupExists[s]
        /\ Len(deliveries[s]) > lostAt[s]
        /\ deliveries[s][lostAt[s] + 1] = 1

RECURSIVE IsJsonDocument(_)
\* a Python value made of str, int, None, lists and dicts with str keys
IsJsonDocument(v) ==
    CASE v[1] \in {"str", "int", "none"} -> TRUE
      [] v[1] = "list" -> \A i \in DOMAIN v[2] : IsJsonDocument(v[2][i])
      [] v[1] = "tuple" -> FALSE
      [] v[1] = "dict" ->
           \A k \in DOMAIN v[2] : k[1] = "str" /\ IsJsonDocument(v[2][k])

CreatesExisting ==
    /\ uelrOps' = uelrOps + 1
    /\ uelrResponse'.status_code = 201
    /\ uelrResponse'.interaction_id \in DOMAIN files

\* C32: creating an interaction with an id that already exists is
\* idempotent: it returns the existing interaction and leaves its header
\* fields, counters and stored steps (and the index) unchanged, whatever
\* appends or completion happened before.
C32_CreateIsIdempotent ==
    [][CreatesExisting =>
         /\ files' = files
         /\ index' = index
         /\ uelrResponse'.interaction = files[uelrResponse'.interaction_id]]_vars

\* a create was answered with an interaction that has steps and was completed
C32_Witness ==
    /\ uelrResponse.status_code = 201
    /\ uelrResponse.interaction.steps # <<>>
    /\ uelrResponse.interaction.header.ended_at # -1
    /\ files[uelrResponse.interaction_id] = uelrResponse.interaction

\* s is t or t with steps added at its end
IsPrefix(s, t) == Len(s) <= Len(t) /\ \A i \in DOMAIN s : s[i] = t[i]

\* C33: create, then any sequence of append_steps calls, then get returns an
\* interaction whose steps are exactly the accepted appended steps in append
\* order; an append only adds steps and never removes, duplicates or
\* reorders steps stored earlier.
C33_GetReturnsAppendedSteps ==
    [][/\ uelrResponse'.status_code = 200 =>
            uelrResponse'.interaction.steps = acceptedSteps'[uelrResponse'.interaction_id]
       /\ \A id \in DOMAIN files \cap DOMAIN files' :
            (uelrOps' = uelrOps + 1 /\ Len(files'[id].steps) # Len(files[id].steps)) =>
               /\ IsPrefix(files[id].steps, files'[id].steps)
               /\ files'[id].steps = acceptedSteps'[id]]_vars

\* a get returned the two steps that two append requests had stored
C33_Witness ==
    /\ uelrResponse.status_code = 200
    /\ Len(uelrResponse.interaction.steps) = 2
    /\ uelrResponse.interaction.steps[1].status = "success"
    /\ uelrResponse.interaction.steps[2].status = "error"

\* the interaction was completed
Completed(file) == file.header.ended_at # -1

\* C34: an interaction is append-only until it is explicitly completed, and
\* once completed its steps and completion fields (status, ended_at,
\* duration_ms) are no longer altered by further append or complete
\* requests.
C34_FrozenOnceCompleted ==
    [][\A id \in DOMAIN files \cap DOMAIN files' :
         /\ ~Completed(files[id]) =>
               /\ IsPrefix(files[id].steps, files'[id].steps)
               /\ files'[id].header.started_at = files[id].header.started_at
         /\ Completed(files[id]) =>
               /\ files'[id].steps = files[id].steps
               /\ files'[id].header.status = files[id].header.status
               /\ files'[id].header.ended_at = files[id].header.ended_at
               /\ files'[id].header.duration_ms = files[id].header.duration_ms]_vars

RECURSIVE CountErrors(_)
\* the number of steps whose status is error
CountErrors(steps) ==
    IF steps = <<>> THEN 0
    ELSE (IF Head(steps).status = "error" THEN 1 ELSE 0) + CountErrors(Tail(steps))

\* C37: after any sequence of append_steps calls, the interaction's
\* error_count equals the number of its stored steps whose status is error.
C37_ErrorCountMatchesSteps ==
    \A id \in DOMAIN files :
        files[id].header.error_count = CountErrors(files[id].steps)

\* an interaction holds an error step and a success step
C37_Witness ==
    \E id \in DOMAIN files :
        /\ files[id].header.error_count = 1
        /\ files[id].header.step_count = 2
        /\ Len(files[id].steps) = 2

\* C35: whenever saving an interaction makes the index exceed
\* MAX_INTERACTIONS entries, the oldest entries are removed from the index
\* and the interaction files of the removed entries are deleted from disk.
C35_EvictionDeletesFiles ==
    [][(/\ Cardinality(DOMAIN index) = MAX_INTERACTIONS
        /\ DOMAIN index' \ DOMAIN index # {}) =>
          /\ Cardinality(DOMAIN index') <= MAX_INTERACTIONS
          /\ \A id \in DOMAIN index \ DOMAIN index' :
                /\ id \notin DOMAIN files'
                /\ \A kept \in DOMAIN index' :
                      index'[kept].started_at >= index[id].started_at]_vars

\* C36: after cleanup(days) returns, no interaction whose started_at is
\* older than now minus days remains in the index and no file of such an
\* interaction remains on disk, whatever requests and evictions came before.
C36_CleanupLeavesNothingOld ==
    [][\A retention_days \in RetentionDays :
         CleanupOldInteractions(retention_days) =>
           /\ \A id \in DOMAIN index' :
                 index'[id].started_at >= utcnow - retention_days
           /\ \A id \in DOMAIN files' :
                 files'[id].header.started_at >= utcnow - retention_days]_vars

C39_AckOnlyAfterTerminal ==
    msg = "acked" => rec.status \notin {"queued", "running"}


\* C40: a job cancelled while its message is still queued is never executed:
\* once such a cancel has been accepted, the worker that later dequeues the
\* message neither sets the record to running nor starts the plugin.
C40_CancelledQueuedNeverExecuted ==
    cancelledQueued => (rec.status # "running" /\ ~pluginRunning)

====
